---- MODULE Spec2Model ----
(***************************************************************************)
(* The replicated file-index set of syncthing (internal/db, bolt backend). *)
(* The store of one folder is modelled as the device buckets               *)
(* (device -> name -> FileInfo) and the global bucket                      *)
(* (name -> versionList).  Every public write (update, replace,            *)
(* replaceWithDelete) is one action: one bolt write transaction.           *)
(***************************************************************************)
EXTENDS Integers, Sequences, FiniteSets, TLC

VARIABLES dev, glob, clockTick, nops, cmp, rd, fault, blocks, fix, blocBuc, finder, conc, scn, subsCall,
          ldb, cset, gset, race, loop

vars == <<dev, glob, clockTick, nops, cmp, rd, fault, blocks, fix, blocBuc, finder, conc, scn,
          subsCall, ldb, cset, gset, race, loop>>

\* the variables of the block finder and of the scanner, left alone by the
\* file set
finderVars == <<fix, blocBuc, finder, conc, scn, subsCall, ldb, cset, gset, race,
               loop>>

\* the variables of the file set, left alone by the block finder
setVars == <<dev, glob, clockTick, nops, cmp, rd, fault>>

\* The persistent store: what a reader can observe.
store == <<dev, glob, clockTick>>

(***************************************************************************)
(* Bounds of the model.                                                    *)
(***************************************************************************)
\* calls of genericReplace in SpecLoop
MaxLoopCalls == 2

\* calls of the two tasks of SpecRace
MaxRaceCalls == 2

\* longest argument list fs of one call
MaxLen == 2
\* number of write calls in one behaviour
MaxOps == 3
\* largest counter of a vector drawn as an input of Compare
MaxCounter == 1
\* largest counter of a version handed to updateGlobal on its own
MaxGCounter == 1

\* writes committed while one iteration runs
MaxWrites == 2

\* writes committed before a write meets a fault
MaxSoundWrites == 1

\* blocks of a file and files of a call handed to the block map
MaxBlocks == 2

MaxFiles == 2

\* paired writes of the file set and the block map
MaxPairedOps == 3

\* folders of a configuration
MaxFolders == 2
MaxAccept == 4

\* Add calls committed next to a running Iterate and Changed
MaxConcAdds == 1

\* Changed calls next to the Iterate calls
MaxChanges == 2

\* files of one batch of the scanner (100 in the source)
batchSize == 2

\* scans of a behaviour
MaxScans == 2

\* calls of Replace and ReplaceWithDelete on the set of files/set.go
MaxSetCalls == 3

\* subs of one call of cleanSubs
MaxSubs == 2

(***************************************************************************)
(* Universe.                                                               *)
(***************************************************************************)
Devices == {"LOCAL", "REMOTE1"}

\* Device short ids, the keys of a version vector.
ShortIDs == {1, 2, 3}

\* The short id the local device passes to replaceWithDelete.
MyIDs == {1}

\* File names are byte strings; <<>> is the nil key of an exhausted cursor.
Names == {<<1>>, <<2>>}

FlagDeleted == "FlagDeleted"
FlagInvalid == "FlagInvalid"
FlagDirectory == "FlagDirectory"

Max(a, b) == IF a > b THEN a ELSE b

(***************************************************************************)
(* bytes.Compare: lexicographic order of byte strings, -1 / 0 / 1.         *)
(***************************************************************************)
RECURSIVE BytesCompare(_, _)
BytesCompare(a, b) ==
    IF a = <<>> /\ b = <<>> THEN 0
    ELSE IF a = <<>> THEN -1
    ELSE IF b = <<>> THEN 1
    ELSE IF Head(a) < Head(b) THEN -1
    ELSE IF Head(a) > Head(b) THEN 1
    ELSE BytesCompare(Tail(a), Tail(b))

(***************************************************************************)
(* VersionVector (protocol.Vector): a map short id -> counter; a counter   *)
(* of 0 is an absent entry, so a function over ShortIDs is the canonical   *)
(* form (sorted, no duplicates, zero counters elided).                     *)
(***************************************************************************)
Vec(c1, c2) == [i \in ShortIDs |-> IF i = 1 THEN c1 ELSE IF i = 2 THEN c2 ELSE 0]

\* every vector with counters up to n
Vectors(n) == [ShortIDs -> 0..n]

VectorEqual(a, b) == \A i \in ShortIDs : a[i] = b[i]

VectorUpdate(v, id) == [v EXCEPT ![id] = @ + 1]

\* The canonical encoding: the number of counters, then (id, value) pairs in
\* ascending id order.  All fields are fixed-width big-endian, so comparing
\* the bytes is comparing the sequence of numbers.
RECURSIVE EncodePairs(_, _)
EncodePairs(v, ids) ==
    IF ids = {} THEN <<>>
    ELSE LET i == CHOOSE x \in ids : \A y \in ids : x <= y
         IN  (IF v[i] > 0 THEN <<i, v[i]>> ELSE <<>>) \o EncodePairs(v, ids \ {i})

\* A variant of VectorEncode: the pairs without the count in front.
VectorEncode_NoCount(v) == EncodePairs(v, ShortIDs)

VectorEncode(v) ==
    <<Cardinality({i \in ShortIDs : v[i] > 0})>> \o EncodePairs(v, ShortIDs)

Dominates(a, b) ==
    /\ \A i \in ShortIDs : a[i] >= b[i]
    /\ \E i \in ShortIDs : a[i] > b[i]

VectorCompare(a, b) ==
    IF VectorEqual(a, b) THEN "Equal"
    ELSE IF Dominates(a, b) THEN "Greater"
    ELSE IF Dominates(b, a) THEN "Lesser"
    ELSE IF BytesCompare(VectorEncode(a), VectorEncode(b)) < 0 THEN "ConcurrentLesser"
    ELSE "ConcurrentGreater"

VectorGreaterEqual(a, b) == VectorCompare(a, b) \in {"Equal", "Greater"}

(***************************************************************************)
(* The process-wide Lamport clock: clock(v) returns a value above v and    *)
(* above every value returned before.                                      *)
(***************************************************************************)
clock(tick, v) == IF v > tick THEN v + 1 ELSE tick + 1

(***************************************************************************)
(* Buckets: a bolt bucket is a finite map from keys to values.             *)
(***************************************************************************)
EmptyBucket == [k \in {} |-> 0]

Put(b, k, v) == [x \in (DOMAIN b) \cup {k} |-> IF x = k THEN v ELSE b[x]]

Delete(b, k) == [x \in (DOMAIN b) \ {k} |-> b[x]]

\* The smallest key of a set of keys, <<>> (nil) when there is none.
MinKey(S) ==
    IF S = {} THEN <<>>
    ELSE CHOOSE k \in S : \A m \in S : BytesCompare(k, m) <= 0

\* Cursor.First and Cursor.Next over the keys of a bucket, in byte order.
\* The cursor is read against the bucket as it is at the call: a Put or a
\* Delete made during the iteration does not displace it.
CursorFirst(b) == MinKey(DOMAIN b)

CursorNext(b, k) == MinKey({m \in DOMAIN b : BytesCompare(m, k) > 0})

IsDeleted(f) == FlagDeleted \in f.Flags

IsInvalid(f) == FlagInvalid \in f.Flags

IsDirectory(f) == FlagDirectory \in f.Flags

(***************************************************************************)
(* updateGlobal: put device+version into the version list of the file.     *)
(* The argument and the result are the global bucket.                      *)
(***************************************************************************)
\* index of the first entry of the list held by the device, 0 if none
DeviceIndex(fl, device) ==
    IF \E i \in 1..Len(fl) : fl[i].device = device
    THEN CHOOSE i \in 1..Len(fl) :
            /\ fl[i].device = device
            /\ \A j \in 1..(i - 1) : fl[j].device # device
    ELSE 0

RemoveAt(fl, i) == SubSeq(fl, 1, i - 1) \o SubSeq(fl, i + 1, Len(fl))

InsertAt(fl, i, e) == SubSeq(fl, 1, i - 1) \o <<e>> \o SubSeq(fl, i, Len(fl))

\* A variant of GoesBefore: concurrent entries are not told apart.
GoesBefore_NoConcurrent(e, version) ==
    VectorCompare(e.version, version) \in {"Equal", "Lesser"}

\* does the new version go in front of the entry e
GoesBefore(e, version) ==
    VectorCompare(e.version, version) \in {"Equal", "Lesser", "ConcurrentLesser"}

\* A variant of updateGlobal: the entry the device had stays in the list.
updateGlobal_KeepEntry(gloBuc, device, file, version) ==
    LET svl == IF file \in DOMAIN gloBuc THEN gloBuc[file] ELSE <<>>
        di  == DeviceIndex(svl, device)
        nv  == [device |-> device, version |-> version]
        pos == IF \E i \in 1..Len(svl) : GoesBefore(svl[i], version)
               THEN CHOOSE i \in 1..Len(svl) :
                       /\ GoesBefore(svl[i], version)
                       /\ \A j \in 1..(i - 1) : ~GoesBefore(svl[j], version)
               ELSE Len(svl) + 1
    IN  IF di # 0 /\ VectorEqual(svl[di].version, version)
        THEN gloBuc
        ELSE Put(gloBuc, file, InsertAt(svl, pos, nv))
updateGlobal(gloBuc, device, file, version) ==
    LET svl == IF file \in DOMAIN gloBuc THEN gloBuc[file] ELSE <<>>
        di  == DeviceIndex(svl, device)
        fl  == IF di = 0 THEN svl ELSE RemoveAt(svl, di)
        nv  == [device |-> device, version |-> version]
        pos == IF \E i \in 1..Len(fl) : GoesBefore(fl[i], version)
               THEN CHOOSE i \in 1..Len(fl) :
                       /\ GoesBefore(fl[i], version)
                       /\ \A j \in 1..(i - 1) : ~GoesBefore(fl[j], version)
               ELSE Len(fl) + 1
    IN  IF di # 0 /\ VectorEqual(svl[di].version, version)
        THEN gloBuc
        ELSE Put(gloBuc, file, InsertAt(fl, pos, nv))

\* A variant of removeFromGlobal: a list left empty is stored.
removeFromGlobal_KeepEmpty(gloBuc, device, file) ==
    IF file \notin DOMAIN gloBuc THEN gloBuc
    ELSE LET svl == gloBuc[file]
             di  == DeviceIndex(svl, device)
         IN  Put(gloBuc, file, IF di = 0 THEN svl ELSE RemoveAt(svl, di))

\* A variant of removeFromGlobal: the whole version list is deleted.
removeFromGlobal_DropList(gloBuc, device, file) ==
    IF file \notin DOMAIN gloBuc THEN gloBuc ELSE Delete(gloBuc, file)

(***************************************************************************)
(* removeFromGlobal: drop the device from the version list of the file;    *)
(* a list left empty is deleted.                                           *)
(***************************************************************************)
removeFromGlobal(gloBuc, device, file) ==
    IF file \notin DOMAIN gloBuc THEN gloBuc
    ELSE LET svl == gloBuc[file]
             di  == DeviceIndex(svl, device)
             fl  == IF di = 0 THEN svl ELSE RemoveAt(svl, di)
         IN  IF Len(fl) = 0 THEN Delete(gloBuc, file) ELSE Put(gloBuc, file, fl)

(***************************************************************************)
(* The state of one write transaction: the device buckets, the global      *)
(* bucket, the clock and the running maxLocalVer.                          *)
(***************************************************************************)
Tx(d, g, c) == [devs |-> d, glo |-> g, clk |-> c, maxLocalVer |-> 0]

\* A variant of insert: every record written is stamped by the clock.
insert_AlwaysStamp(st, device, file) ==
    LET lv == clock(st.clk, 0)
    IN  [st EXCEPT !.devs[device] = Put(@, file.Name, [file EXCEPT !.LocalVersion = lv]),
                   !.clk = lv,
                   !.maxLocalVer = Max(@, lv)]

\* insert: stamp LocalVersion when it is 0, write the record; the caller
\* keeps the largest LocalVersion written.
insert(st, device, file) ==
    LET lv == IF file.LocalVersion = 0 THEN clock(st.clk, 0) ELSE file.LocalVersion
    IN  [st EXCEPT !.devs[device] = Put(@, file.Name, [file EXCEPT !.LocalVersion = lv]),
                   !.clk = IF file.LocalVersion = 0 THEN lv ELSE @,
                   !.maxLocalVer = Max(@, lv)]

\* A variant of insertAndGlobal: a tombstone is taken off the list like an
\* invalid file.
insertAndGlobal_DeletedUnlisted(st, device, f) ==
    LET s1 == insert(st, device, f)
    IN  [s1 EXCEPT !.glo = IF IsInvalid(f) \/ IsDeleted(f)
                           THEN removeFromGlobal(@, device, f.Name)
                           ELSE updateGlobal(@, device, f.Name, f.Version)]

\* A variant of insertAndGlobal: the entry of a device the list already
\* holds is left as it is.
insertAndGlobal_KeepListed(st, device, f) ==
    LET s1 == insert(st, device, f)
        listed == /\ f.Name \in DOMAIN st.glo
                  /\ DeviceIndex(st.glo[f.Name], device) # 0
    IN  [s1 EXCEPT !.glo = IF IsInvalid(f) THEN removeFromGlobal(@, device, f.Name)
                           ELSE IF listed THEN @
                           ELSE updateGlobal(@, device, f.Name, f.Version)]
\* insert followed by the update of the version list
insertAndGlobal(st, device, f) ==
    LET s1 == insert(st, device, f)
    IN  [s1 EXCEPT !.glo = IF IsInvalid(f)
                           THEN removeFromGlobal(@, device, f.Name)
                           ELSE updateGlobal(@, device, f.Name, f.Version)]

\* A variant of Differs: the LocalVersion is compared as well.
Differs_WithLocalVersion(ef, f) ==
    \/ ~VectorEqual(ef.Version, f.Version)
    \/ ef.Flags # f.Flags
    \/ ef.LocalVersion # f.LocalVersion

\* A variant of Differs: only the versions are compared.
Differs_VersionOnly(ef, f) == ~VectorEqual(ef.Version, f.Version)

\* A variant of Differs: the record is written only when the announced
\* Version is Greater than the stored one.
Differs_OnlyGreater(ef, f) == Dominates(f.Version, ef.Version)

\* does the stored record differ from the announced one
Differs(ef, f) == ~VectorEqual(ef.Version, f.Version) \/ ef.Flags # f.Flags

(***************************************************************************)
(* update: the incremental merge, file by file in argument order.          *)
(***************************************************************************)
RECURSIVE updateFrom(_, _, _, _)
updateFrom(st, device, fs, i) ==
    IF i > Len(fs) THEN st
    ELSE LET f      == fs[i]
             devBuc == st.devs[device]
         IN  IF f.Name \notin DOMAIN devBuc
             THEN updateFrom(insertAndGlobal(st, device, f), device, fs, i + 1)
             ELSE IF Differs(devBuc[f.Name], f)
             THEN updateFrom(insertAndGlobal(st, device, f), device, fs, i + 1)
             ELSE updateFrom(st, device, fs, i + 1)

update(st, device, fs) == updateFrom(st, device, fs, 1)

(***************************************************************************)
(* sort.Sort(fileList(fs)): by name; for lists this short sort.Sort is an  *)
(* insertion sort, which keeps equal names in argument order.              *)
(***************************************************************************)
RECURSIVE SortInsert(_, _)
SortInsert(sorted, f) ==
    IF sorted = <<>> THEN <<f>>
    ELSE IF BytesCompare(f.Name, sorted[Len(sorted)].Name) < 0
    THEN Append(SortInsert(SubSeq(sorted, 1, Len(sorted) - 1), f), sorted[Len(sorted)])
    ELSE Append(sorted, f)

\* A variant of SortByName: the list is taken in argument order.
SortByName_Unsorted(fs) == fs

RECURSIVE SortByName(_)
SortByName(fs) ==
    IF fs = <<>> THEN <<>>
    ELSE SortInsert(SortByName(SubSeq(fs, 1, Len(fs) - 1)), fs[Len(fs)])

(***************************************************************************)
(* The two deletion handlers of genericReplace.                            *)
(***************************************************************************)
\* A variant of replaceDeleteFn: the version list is left alone.
replaceDeleteFn_KeepGlobal(st, device, name) ==
    [st EXCEPT !.devs[device] = Delete(@, name)]

\* A variant of replaceDeleteFn: the record is left in the bucket.
replaceDeleteFn_KeepRecord(st, device, name) ==
    [st EXCEPT !.glo = removeFromGlobal(@, device, name)]

\* replace: the database has a file the new list lacks; remove it.
replaceDeleteFn(st, device, name) ==
    [st EXCEPT !.glo = removeFromGlobal(@, device, name),
               !.devs[device] = Delete(@, name)]

\* A variant of replaceWithDeleteFn: the tombstone keeps the old version.
replaceWithDeleteFn_SameVersion(st, device, name, myID) ==
    LET tf == st.devs[device][name]
        ts == clock(st.clk, tf.LocalVersion)
        f  == [Name         |-> tf.Name,
               Version      |-> tf.Version,
               LocalVersion |-> ts,
               Flags        |-> tf.Flags \cup {FlagDeleted},
               Blocks       |-> <<>>]
    IN  IF ~IsDeleted(tf)
        THEN [st EXCEPT !.devs[device] = Put(@, name, f),
                        !.clk = ts,
                        !.glo = updateGlobal(@, device, name, f.Version),
                        !.maxLocalVer = Max(@, ts)]
        ELSE st

\* A variant of replaceWithDeleteFn: a tombstone is rewritten again.
replaceWithDeleteFn_Always(st, device, name, myID) ==
    LET tf == st.devs[device][name]
        ts == clock(st.clk, tf.LocalVersion)
        f  == [Name         |-> tf.Name,
               Version      |-> VectorUpdate(tf.Version, myID),
               LocalVersion |-> ts,
               Flags        |-> tf.Flags \cup {FlagDeleted},
               Blocks       |-> <<>>]
    IN  [st EXCEPT !.devs[device] = Put(@, name, f),
                   !.clk = ts,
                   !.glo = updateGlobal(@, device, name, f.Version),
                   !.maxLocalVer = Max(@, ts)]

\* replaceWithDelete: rewrite the record as a tombstone, unless it is one.
replaceWithDeleteFn(st, device, name, myID) ==
    LET tf == st.devs[device][name]
        ts == clock(st.clk, tf.LocalVersion)
        f  == [Name         |-> tf.Name,
               Version      |-> VectorUpdate(tf.Version, myID),
               LocalVersion |-> ts,
               Flags        |-> tf.Flags \cup {FlagDeleted},
               Blocks       |-> <<>>]
    IN  IF ~IsDeleted(tf)
        THEN [st EXCEPT !.devs[device] = Put(@, name, f),
                        !.clk = ts,
                        !.glo = updateGlobal(@, device, name, f.Version),
                        !.maxLocalVer = Max(@, ts)]
        ELSE st

deleteFn(st, device, name, withDelete, myID) ==
    IF withDelete THEN replaceWithDeleteFn(st, device, name, myID)
    ELSE replaceDeleteFn(st, device, name)

(***************************************************************************)
(* genericReplace: the merge of the sorted list with the device bucket.    *)
(* fsi is the list index, k the cursor key (<<>> when exhausted) and v the *)
(* value read with it.                                                     *)
(***************************************************************************)
ValueAt(b, k) == IF k \in DOMAIN b THEN b[k] ELSE <<>>

RECURSIVE replaceLoop(_, _, _, _, _, _, _, _)
replaceLoop(st, device, fs, fsi, k, v, withDelete, myID) ==
    LET moreDb  == k # <<>>
        moreFs  == fsi <= Len(fs)
        newName == IF moreFs THEN fs[fsi].Name ELSE <<>>
        oldName == IF moreDb THEN k ELSE <<>>
        c       == BytesCompare(newName, oldName)
    IN  IF ~moreDb /\ ~moreFs THEN st
        ELSE IF moreFs /\ (~moreDb \/ c = -1)
        THEN replaceLoop(insertAndGlobal(st, device, fs[fsi]), device, fs,
                         fsi + 1, k, v, withDelete, myID)
        ELSE IF moreFs /\ moreDb /\ c = 0
        THEN LET s1 == IF Differs(v, fs[fsi])
                       THEN insertAndGlobal(st, device, fs[fsi])
                       ELSE st
                 nk == CursorNext(s1.devs[device], k)
             IN  replaceLoop(s1, device, fs, fsi + 1, nk,
                             ValueAt(s1.devs[device], nk), withDelete, myID)
        ELSE LET s1 == deleteFn(st, device, oldName, withDelete, myID)
                 nk == CursorNext(s1.devs[device], k)
             IN  replaceLoop(s1, device, fs, fsi, nk,
                             ValueAt(s1.devs[device], nk), withDelete, myID)

genericReplace(st, device, fs, withDelete, myID) ==
    LET sorted == SortByName(fs)
        k      == CursorFirst(st.devs[device])
    IN  replaceLoop(st, device, sorted, 1, k, ValueAt(st.devs[device], k),
                    withDelete, myID)

replace(st, device, fs) == genericReplace(st, device, fs, FALSE, 0)

replaceWithDelete(st, device, fs, myID) == genericReplace(st, device, fs, TRUE, myID)

(***************************************************************************)
(* genericReplace, one loop iteration at a time.  g holds the transaction  *)
(* st, the sorted list fs, the list index fsi, the cursor key k (<<>> when  *)
(* exhausted) and the value v read with it.                                *)
(***************************************************************************)
\* the cases of the switch whose condition holds
cases(g) ==
    LET moreDb  == g.k # <<>>
        moreFs  == g.fsi <= Len(g.fs)
        newName == IF moreFs THEN g.fs[g.fsi].Name ELSE <<>>
        oldName == IF moreDb THEN g.k ELSE <<>>
        c       == BytesCompare(newName, oldName)
    IN  {x \in {"insert"} : moreFs /\ (~moreDb \/ c = -1)}
        \cup {x \in {"compare"} : moreFs /\ moreDb /\ c = 0}
        \cup {x \in {"delete"} : moreDb /\ (~moreFs \/ c = 1)}

\* A variant of iteration: the insert case leaves the list index alone.
iteration_InsertStays(g) ==
    IF "insert" \in cases(g)
    THEN [g EXCEPT !.st = insertAndGlobal(@, g.device, g.fs[g.fsi])]
    ELSE IF "compare" \in cases(g)
    THEN LET s1 == IF Differs(g.v, g.fs[g.fsi])
                   THEN insertAndGlobal(g.st, g.device, g.fs[g.fsi])
                   ELSE g.st
             nk == CursorNext(s1.devs[g.device], g.k)
         IN  [g EXCEPT !.st = s1, !.fsi = @ + 1, !.k = nk,
                       !.v = ValueAt(s1.devs[g.device], nk)]
    ELSE IF "delete" \in cases(g)
    THEN LET s1 == deleteFn(g.st, g.device, g.k, g.withDelete, g.myID)
             nk == CursorNext(s1.devs[g.device], g.k)
         IN  [g EXCEPT !.st = s1, !.k = nk, !.v = ValueAt(s1.devs[g.device], nk)]
    ELSE g

\* the switch: the first case that matches runs, and none runs when none matches
iteration(g) ==
    IF "insert" \in cases(g)
    THEN [g EXCEPT !.st = insertAndGlobal(@, g.device, g.fs[g.fsi]), !.fsi = @ + 1]
    ELSE IF "compare" \in cases(g)
    THEN LET s1 == IF Differs(g.v, g.fs[g.fsi])
                   THEN insertAndGlobal(g.st, g.device, g.fs[g.fsi])
                   ELSE g.st
             nk == CursorNext(s1.devs[g.device], g.k)
         IN  [g EXCEPT !.st = s1, !.fsi = @ + 1, !.k = nk,
                       !.v = ValueAt(s1.devs[g.device], nk)]
    ELSE IF "delete" \in cases(g)
    THEN LET s1 == deleteFn(g.st, g.device, g.k, g.withDelete, g.myID)
             nk == CursorNext(s1.devs[g.device], g.k)
         IN  [g EXCEPT !.st = s1, !.k = nk, !.v = ValueAt(s1.devs[g.device], nk)]
    ELSE g

\* no call of genericReplace is running
NoLoop == [st |-> Tx([d \in Devices |-> EmptyBucket], EmptyBucket, 0),
           device |-> "LOCAL", fs |-> <<>>, fsi |-> 1, k |-> <<>>, v |-> <<>>,
           withDelete |-> FALSE, myID |-> 0, pc |-> "idle", calls |-> 0,
           pre |-> Tx([d \in Devices |-> EmptyBucket], EmptyBucket, 0)]

(***************************************************************************)
(* Readers.  Each runs in one read transaction, over the buckets as they   *)
(* are when it opens; the iterators are given a callback that always       *)
(* continues, and the result is the sequence of its arguments.             *)
(***************************************************************************)
\* the entries of fl from index i on, while their version equals head's
RECURSIVE availabilityFrom(_, _)
availabilityFrom(fl, i) ==
    IF i > Len(fl) THEN <<>>
    ELSE IF ~VectorEqual(fl[i].version, fl[1].version) THEN <<>>
    ELSE <<fl[i].device>> \o availabilityFrom(fl, i + 1)

\* A variant of availability: every listed device is returned.
availability_AllListed(gloBuc, file) ==
    IF file \notin DOMAIN gloBuc THEN <<>>
    ELSE [i \in 1..Len(gloBuc[file]) |-> gloBuc[file][i].device]

availability(gloBuc, file) ==
    IF file \notin DOMAIN gloBuc THEN <<>>
    ELSE availabilityFrom(gloBuc[file], 1)

\* what a reader leaves behind when it panics
Panic(msg) == [panic |-> msg]

IsPanic(item) == "panic" \in DOMAIN item

\* folBuc.Bucket(device).Get(file): <<>> (nil) without the bucket or the key
GetRecord(devs, device, file) ==
    IF device \in DOMAIN devs /\ file \in DOMAIN devs[device]
    THEN devs[device][file]
    ELSE <<>>

\* A variant of needVersion: a tombstone is handed to a device that never
\* had the file.
needVersion_KeepDeleted(devs, fl, file, have, i) ==
    LET heads == {j \in i..Len(fl) : VectorEqual(fl[j].version, fl[1].version)
                                      /\ \A m \in i..j : VectorEqual(fl[m].version, fl[1].version)}
        valid == {j \in heads : GetRecord(devs, fl[j].device, file) # <<>>
                                 /\ ~IsInvalid(GetRecord(devs, fl[j].device, file))}
    IN  IF valid = {} THEN <<>>
        ELSE <<GetRecord(devs, fl[CHOOSE j \in valid : \A m \in valid : j <= m].device, file)>>

\* withNeed, the loop nextVersion from index i on: the first valid copy of
\* the file at the head version, if there is one the device needs.
RECURSIVE needVersion(_, _, _, _, _)
needVersion(devs, fl, file, have, i) ==
    IF i > Len(fl) THEN <<>>
    ELSE IF ~VectorEqual(fl[i].version, fl[1].version) THEN <<>>
    ELSE LET gf == GetRecord(devs, fl[i].device, file)
         IN  IF gf = <<>> THEN <<Panic("not found")>>
             ELSE IF IsInvalid(gf) THEN needVersion(devs, fl, file, have, i + 1)
             ELSE IF IsDeleted(gf) /\ ~have THEN <<>>
             ELSE <<gf>>

\* A variant of needFile: a device needs the file unless its version is
\* Greater than the head's.
needFile_UnlessGreater(devs, gloBuc, device, file) ==
    LET fl   == gloBuc[file]
        di   == DeviceIndex(fl, device)
        have == di # 0
        need == have /\ VectorCompare(fl[di].version, fl[1].version) # "Greater"
    IN  IF Len(fl) = 0 THEN <<Panic("no versions?")>>
        ELSE IF need \/ ~have THEN needVersion(devs, fl, file, have, 1)
        ELSE <<>>
\* withNeed, one turn of the loop nextFile
needFile(devs, gloBuc, device, file) ==
    LET fl   == gloBuc[file]
        di   == DeviceIndex(fl, device)
        have == di # 0
        need == have /\ ~VectorGreaterEqual(fl[di].version, fl[1].version)
    IN  IF Len(fl) = 0 THEN <<Panic("no versions?")>>
        ELSE IF need \/ ~have THEN needVersion(devs, fl, file, have, 1)
        ELSE <<>>

RECURSIVE needFrom(_, _, _, _)
needFrom(devs, gloBuc, device, file) ==
    IF file = <<>> THEN <<>>
    ELSE LET out == needFile(devs, gloBuc, device, file)
         IN  IF out # <<>> /\ IsPanic(out[1]) THEN out
             ELSE out \o needFrom(devs, gloBuc, device, CursorNext(gloBuc, file))

withNeed(devs, gloBuc, device) == needFrom(devs, gloBuc, device, CursorFirst(gloBuc))

\* A variant of getGlobal: the record of the last listed device is read.
getGlobal_LastEntry(devs, gloBuc, file) ==
    IF file \notin DOMAIN gloBuc THEN [ok |-> FALSE]
    ELSE LET vl == gloBuc[file]
         IN  IF Len(vl) = 0 THEN Panic("no versions?")
             ELSE [ok |-> TRUE, fi |-> GetRecord(devs, vl[Len(vl)].device, file)]

\* getGlobal: the record of the device at the head of the file's list
getGlobal(devs, gloBuc, file) ==
    IF file \notin DOMAIN gloBuc THEN [ok |-> FALSE]
    ELSE LET vl == gloBuc[file]
             bs == GetRecord(devs, vl[1].device, file)
         IN  IF Len(vl) = 0 THEN Panic("no versions?")
             ELSE IF bs = <<>> THEN Panic("unmarshal of nil")
             ELSE [ok |-> TRUE, fi |-> bs]

\* withGlobal, one turn of the loop over the global bucket
globalFile(devs, gloBuc, name) ==
    LET vl == gloBuc[name]
        bs == GetRecord(devs, vl[1].device, name)
    IN  IF Len(vl) = 0 THEN Panic("no versions?")
        ELSE IF bs = <<>> THEN Panic("global file missing")
        ELSE bs

RECURSIVE globalFrom(_, _, _)
globalFrom(devs, gloBuc, name) ==
    IF name = <<>> THEN <<>>
    ELSE LET f == globalFile(devs, gloBuc, name)
         IN  IF IsPanic(f) THEN <<f>>
             ELSE <<f>> \o globalFrom(devs, gloBuc, CursorNext(gloBuc, name))

withGlobal(devs, gloBuc) == globalFrom(devs, gloBuc, CursorFirst(gloBuc))

\* withHave: the records of the device in key order
RECURSIVE haveFrom(_, _)
haveFrom(devBuc, k) ==
    IF k = <<>> THEN <<>>
    ELSE <<devBuc[k]>> \o haveFrom(devBuc, CursorNext(devBuc, k))

\* db.withGlobal(folder, prefix, false, fn): the body never reads prefix
WithGlobal(devs, gloBuc, prefix) == withGlobal(devs, gloBuc)
withHave(devs, device) ==
    IF device \notin DOMAIN devs THEN <<>>
    ELSE haveFrom(devs[device], CursorFirst(devs[device]))

(***************************************************************************)
(* The block map of one folder: blocks/<folder>/<hash>/<name> -> index.    *)
(* folBkt maps a hash to its bucket, a bucket maps a file name to the      *)
(* index of the block in that file (counted from 0).                       *)
(***************************************************************************)
HashBucket(folBkt, hash) == IF hash \in DOMAIN folBkt THEN folBkt[hash] ELSE EmptyBucket

\* A variant of Skipped: invalid files are indexed.
Skipped_NotInvalid(file) == IsDirectory(file) \/ IsDeleted(file)

\* the files Add passes over
Skipped(file) == IsDirectory(file) \/ IsDeleted(file) \/ IsInvalid(file)

\* for i, block := range file.Blocks: put name -> i into the bucket of the
\* hash, creating the bucket if need be
RECURSIVE putBlocks(_, _, _, _)
putBlocks(folBkt, name, bl, i) ==
    IF i > Len(bl) THEN folBkt
    ELSE putBlocks(Put(folBkt, bl[i], Put(HashBucket(folBkt, bl[i]), name, i - 1)),
                   name, bl, i + 1)

RECURSIVE addFrom(_, _, _)
addFrom(folBkt, files, k) ==
    IF k > Len(files) THEN folBkt
    ELSE IF Skipped(files[k]) THEN addFrom(folBkt, files, k + 1)
    ELSE addFrom(putBlocks(folBkt, files[k].Name, files[k].Blocks, 1), files, k + 1)

BlockMapAdd(folBkt, files) == addFrom(folBkt, files, 1)

\* for _, block := range file.Blocks: delete name from the bucket of the
\* hash, where there is such a bucket
RECURSIVE discardBlocks(_, _, _, _)
discardBlocks(folBkt, name, bl, i) ==
    IF i > Len(bl) THEN folBkt
    ELSE IF bl[i] \in DOMAIN folBkt
    THEN discardBlocks(Put(folBkt, bl[i], Delete(folBkt[bl[i]], name)), name, bl, i + 1)
    ELSE discardBlocks(folBkt, name, bl, i + 1)

RECURSIVE discardFrom(_, _, _)
discardFrom(folBkt, files, k) ==
    IF k > Len(files) THEN folBkt
    ELSE discardFrom(discardBlocks(folBkt, files[k].Name, files[k].Blocks, 1),
                     files, k + 1)

BlockMapDiscard(folBkt, files) == discardFrom(folBkt, files, 1)

\* Update: folBkt.Bucket(block.Hash).Delete(name) is called on a nil bucket
\* when the hash has none; the panic ends the callback.
RECURSIVE updateBlocksFrom(_, _, _)
updateBlocksFrom(folBkt, files, k) ==
    IF k > Len(files) THEN [folBkt |-> folBkt, panicked |-> FALSE]
    ELSE LET file == files[k]
         IN  IF IsDirectory(file) THEN updateBlocksFrom(folBkt, files, k + 1)
             ELSE IF IsDeleted(file) \/ IsInvalid(file)
             THEN IF \E i \in 1..Len(file.Blocks) : file.Blocks[i] \notin DOMAIN folBkt
                  THEN [folBkt |-> folBkt, panicked |-> TRUE]
                  ELSE updateBlocksFrom(discardBlocks(folBkt, file.Name, file.Blocks, 1),
                                        files, k + 1)
             ELSE updateBlocksFrom(putBlocks(folBkt, file.Name, file.Blocks, 1),
                                   files, k + 1)

\* db.Update around the callback: a panic rolls the transaction back
BlockMapUpdate(folBkt, files) ==
    LET out == updateBlocksFrom(folBkt, files, 1)
    IN  IF out.panicked THEN [folBkt |-> folBkt, panicked |-> TRUE] ELSE out

BlockMapDrop(folBkt) == EmptyBucket

BlockFinderFix(folBkt, file, index, oldHash, newHash) ==
    LET b1 == IF oldHash \in DOMAIN folBkt
              THEN Put(folBkt, oldHash, Delete(folBkt[oldHash], file))
              ELSE folBkt
    IN  Put(b1, newHash, Put(HashBucket(b1, newHash), file, index))

\* Iterate with an iterFn that never accepts: the entries of the hash in
\* key order
RECURSIVE iterateFrom(_, _)
iterateFrom(bkt, file) ==
    IF file = <<>> THEN <<>>
    ELSE <<[file |-> file, index |-> bkt[file]]>> \o iterateFrom(bkt, CursorNext(bkt, file))

BlockFinderIterate(folBkt, hash) ==
    IF hash \notin DOMAIN folBkt THEN <<>>
    ELSE iterateFrom(folBkt[hash], CursorFirst(folBkt[hash]))

(***************************************************************************)
(* The block finder over several folders.  blocBuc is the bucket "blocks": *)
(* folder -> hash -> name -> index; folders is BlockFinder.folders.        *)
(***************************************************************************)
\* A variant of SortStrings: the list is taken as configured.
SortStrings_Unsorted(ids) == ids

\* sort.Strings(folders)
RECURSIVE SortStrings(_)
SortStrings(ids) ==
    IF ids = <<>> THEN <<>>
    ELSE LET rest == SortStrings(Tail(ids))
             lower == SelectSeq(rest, LAMBDA x : BytesCompare(x, Head(ids)) < 0)
             upper == SelectSeq(rest, LAMBDA x : BytesCompare(x, Head(ids)) >= 0)
         IN  lower \o <<Head(ids)>> \o upper

\* Changed: the IDs of cfg.Folders, sorted
changed(cfg) == SortStrings(cfg)

\* the cursor loop of Iterate over one hash bucket, from key file on:
\* iterFn is called on each entry; the call number acceptAt is the first
\* to return true (0: none does)
RECURSIVE iterateBucket(_, _, _, _, _)
iterateBucket(bkt, folder, file, calls, acceptAt) ==
    IF file = <<>> THEN [calls |-> calls, found |-> FALSE]
    ELSE LET c2 == Append(calls, [folder |-> folder, file |-> file, index |-> bkt[file]])
         IN  IF Len(c2) = acceptAt THEN [calls |-> c2, found |-> TRUE]
             ELSE iterateBucket(bkt, folder, CursorNext(bkt, file), c2, acceptAt)

\* found = true; return nil: the return leaves the callback of db.View, and
\* with it the loop over the folders
returned_OnlyCursorLoop(r) == FALSE
returned(r) == r.found

\* for _, folder := range folders
RECURSIVE iterateFolders(_, _, _, _, _, _)
iterateFolders(bloc, folders, hash, fi, calls, acceptAt) ==
    IF fi > Len(folders) THEN [calls |-> calls, found |-> FALSE]
    ELSE IF folders[fi] \notin DOMAIN bloc
    THEN iterateFolders(bloc, folders, hash, fi + 1, calls, acceptAt)
    ELSE IF hash \notin DOMAIN bloc[folders[fi]]
    THEN iterateFolders(bloc, folders, hash, fi + 1, calls, acceptAt)
    ELSE LET bkt == bloc[folders[fi]][hash]
             r   == iterateBucket(bkt, folders[fi], CursorFirst(bkt), calls, acceptAt)
         IN  IF returned(r) THEN r
             ELSE iterateFolders(bloc, folders, hash, fi + 1, r.calls, acceptAt)

\* Iterate: the calls of iterFn in order, and the result
Iterate(bloc, folders, hash, acceptAt) ==
    iterateFolders(bloc, folders, hash, 1, <<>>, acceptAt)

(***************************************************************************)
(* Inputs.                                                                 *)
(***************************************************************************)
\* A file as announced: live files carry one block, the others none.
File(n, ver, fl, lv) ==
    [Name |-> n, Version |-> ver, LocalVersion |-> lv, Flags |-> fl,
     Blocks |-> IF fl = {} THEN <<"h1">> ELSE <<>>]

FileInputs ==
    {File(<<1>>, Vec(1, 0), {}, 0),
     File(<<1>>, Vec(0, 1), {}, 5),
     File(<<1>>, Vec(1, 1), {FlagDeleted}, 0),
     File(<<1>>, Vec(1, 0), {FlagInvalid}, 0),
     File(<<2>>, Vec(1, 0), {}, 0),
     File(<<2>>, Vec(0, 1), {}, 0)}

FileLists == UNION {[1..n -> FileInputs] : n \in 0..MaxLen}

NoCmp == [set |-> FALSE, a |-> Vec(0, 0), b |-> Vec(0, 0), c |-> Vec(0, 0),
          ab |-> "Equal", ba |-> "Equal", bc |-> "Equal", ac |-> "Equal"]

\* No read transaction is open.
NoRead == [state |-> "idle", kind |-> "global", device |-> "LOCAL",
           opened |-> [devs |-> [d \in Devices |-> EmptyBucket], glo |-> EmptyBucket],
           k |-> <<>>, out |-> <<>>]

\* No write has met a fault.
NoFault == [done |-> FALSE, aborted |-> FALSE, panicked |-> FALSE,
            pre |-> [devs |-> [d \in Devices |-> EmptyBucket], glo |-> EmptyBucket],
            partial |-> [devs |-> [d \in Devices |-> EmptyBucket], glo |-> EmptyBucket]]

\* No Fix is running and no Iterate has looked.
NoFix == [state |-> "idle", file |-> <<>>, index |-> 0, oldHash |-> "", newHash |-> "",
          pre |-> EmptyBucket, tx |-> EmptyBucket, seen |-> <<>>]

(***************************************************************************)
(* The state machine of the file set.                                      *)
(***************************************************************************)

(***************************************************************************)
(* Paths of the scanner: byte strings with the separator '/'.  Clean,      *)
(* Join, Dir, IsAbs, Rel and HasPrefix are those of path/filepath on a     *)
(* platform whose separator is '/'.                                        *)
(***************************************************************************)
Slash == 47
Separator == 47
DotByte == 46

DotPath == <<DotByte>>
DotDot == <<DotByte, DotByte>>

\* osutil.NativeFilename: every '/' becomes the native separator
NativeFilename(name) == [i \in 1..Len(name) |-> IF name[i] = Slash THEN Separator ELSE name[i]]

\* the elements of a path between its separators, empty ones included
RECURSIVE SplitPath(_)
SplitPath(path) ==
    IF \A i \in 1..Len(path) : path[i] # Separator THEN <<path>>
    ELSE LET i == CHOOSE k \in 1..Len(path) :
                      path[k] = Separator /\ \A m \in 1..(k - 1) : path[m] # Separator
         IN  <<SubSeq(path, 1, i - 1)>> \o SplitPath(SubSeq(path, i + 1, Len(path)))

RECURSIVE JoinElems(_)
JoinElems(elems) ==
    IF elems = <<>> THEN <<>>
    ELSE IF Len(elems) = 1 THEN elems[1]
    ELSE elems[1] \o <<Separator>> \o JoinElems(Tail(elems))

\* the elements Clean keeps: "" and "." are dropped, ".." takes the
\* element before it away, or stays when there is none and the path is
\* not rooted
RECURSIVE cleanElems(_, _, _)
cleanElems(elems, out, rooted) ==
    IF elems = <<>> THEN out
    ELSE LET e == Head(elems)
         IN  IF e = <<>> \/ e = DotPath THEN cleanElems(Tail(elems), out, rooted)
             ELSE IF e = DotDot
             THEN IF out # <<>> /\ out[Len(out)] # DotDot
                  THEN cleanElems(Tail(elems), SubSeq(out, 1, Len(out) - 1), rooted)
                  ELSE IF rooted THEN cleanElems(Tail(elems), out, rooted)
                  ELSE cleanElems(Tail(elems), Append(out, e), rooted)
             ELSE cleanElems(Tail(elems), Append(out, e), rooted)

IsAbs(path) == path # <<>> /\ path[1] = Separator

\* filepath.Clean
Clean(path) ==
    LET kept == JoinElems(cleanElems(SplitPath(path), <<>>, IsAbs(path)))
    IN  IF IsAbs(path) THEN <<Separator>> \o kept
        ELSE IF kept = <<>> THEN DotPath
        ELSE kept

\* filepath.Join of two elements: empty elements are ignored, the result
\* is cleaned
Join(a, b) ==
    IF a = <<>> /\ b = <<>> THEN <<>>
    ELSE IF a = <<>> THEN Clean(b)
    ELSE IF b = <<>> THEN Clean(a)
    ELSE Clean(a \o <<Separator>> \o b)

\* filepath.Dir: all but the last element, cleaned
Dir(path) ==
    LET seps == {i \in 1..Len(path) : path[i] = Separator}
        last == IF seps = {} THEN 0 ELSE CHOOSE i \in seps : \A k \in seps : k <= i
    IN  Clean(SubSeq(path, 1, last))

\* filepath.HasPrefix: a test on the bytes of the two strings
HasPrefix(path, prefix) ==
    Len(prefix) <= Len(path) /\ SubSeq(path, 1, Len(prefix)) = prefix

\* the number of leading elements two element lists share
RECURSIVE CommonElems(_, _)
CommonElems(a, b) ==
    IF a = <<>> \/ b = <<>> THEN 0
    ELSE IF Head(a) # Head(b) THEN 0
    ELSE 1 + CommonElems(Tail(a), Tail(b))

\* filepath.Rel for a relative base path and a relative target: ".." for
\* every element of base the target does not share, then the rest of the
\* target
Rel(basepath, targpath) ==
    LET be == IF Clean(basepath) = DotPath THEN <<>> ELSE SplitPath(Clean(basepath))
        te == IF Clean(targpath) = DotPath THEN <<>> ELSE SplitPath(Clean(targpath))
        k  == CommonElems(be, te)
        up == [i \in 1..(Len(be) - k) |-> DotDot]
        r  == JoinElems(up \o SubSeq(te, k + 1, Len(te)))
    IN  IF r = <<>> THEN DotPath ELSE r


(***************************************************************************)
(* The folder scanner (internal/model/folderscanner.go).  The index is the *)
(* LOCAL bucket of the store; the disk is the set of names Lstat finds,    *)
(* the ignore patterns are the set of names they match.                    *)
(***************************************************************************)
\* the folder root s.path
RootPath == <<114>>

\* the names of the folder: "a", "a/b", "b", "c"
ScanNames == {<<97>>, <<97, Separator, 98>>, <<98>>, <<99>>}

\* "c" is a symbolic link when it is on disk
SymlinksOnDisk == {<<99>>}

\* the names the patterns of .stignore can match: "b"
IgnoreNames == {<<98>>}

\* cleanSubs has not been called
NoSubsCall == [done |-> FALSE, subs |-> <<>>, out |-> <<>>]

\* nothing on disk, nothing ignored, no scan yet
NoScan == [disk |-> {}, ign |-> {}, scans |-> 0]

\* s.shortID
scannerShortID == 1

FlagSymlink == "FlagSymlink"

IsSymlink(f) == FlagSymlink \in f.Flags

\* symlinkInvalid: a symbolic link on a platform without support for them
symlinkInvalid(supported, isLink) == ~supported /\ isLink

\* validSubs: TRUE is the nil error
validSubs(path, subs) ==
    \A i \in 1..Len(subs) : HasPrefix(Clean(Join(path, subs[i])), path)

\* cleanSubs, the first loop: an absolute sub is taken relative to the root
rootedSub(path, sub) == IF IsAbs(sub) THEN Rel(path, Join(path, sub)) ELSE sub

\* for sub != "." { if _, ok := s.fs.Get(LOCAL, sub); ok { break }; sub = filepath.Dir(sub) }
RECURSIVE knownSub(_, _)
knownSub(devBuc, sub) ==
    IF sub = DotPath THEN sub
    ELSE IF sub \in DOMAIN devBuc THEN sub
    ELSE knownSub(devBuc, Dir(sub))

\* cleanSubs, the second loop: a sub with a prefix among the subs kept so
\* far is left out
RECURSIVE reduceSubs(_, _)
reduceSubs(cleaned, reduced) ==
    IF cleaned = <<>> THEN reduced
    ELSE IF \E k \in 1..Len(reduced) : HasPrefix(Head(cleaned), reduced[k])
    THEN reduceSubs(Tail(cleaned), reduced)
    ELSE reduceSubs(Tail(cleaned), Append(reduced, Head(cleaned)))

cleanSubs(path, devBuc, subs) ==
    reduceSubs(SortStrings([i \in 1..Len(subs) |-> knownSub(devBuc, rootedSub(path, subs[i]))]),
               <<>>)

\* the record of a tombstone: name, flags, version; no blocks
Tombstone(f, flags, version) ==
    [Name |-> f.Name, Version |-> version, LocalVersion |-> 0, Flags |-> flags, Blocks |-> <<>>]

\* A variant of diffOf: the invalid tombstone bumps the version as well.
diffOf_BumpInvalid(f, disk, ign, symOK) ==
    IF f.Name \in ign \/ symlinkInvalid(symOK, IsSymlink(f))
    THEN <<Tombstone(f, f.Flags \cup {FlagInvalid}, VectorUpdate(f.Version, scannerShortID))>>
    ELSE IF f.Name \notin disk
    THEN <<Tombstone(f, f.Flags \cup {FlagDeleted}, VectorUpdate(f.Version, scannerShortID))>>
    ELSE <<>>

\* what the diff pass appends for one record that is in scope and not
\* deleted or invalid: <<>> when the file is in order
diffOf(f, disk, ign, symOK) ==
    IF f.Name \in ign \/ symlinkInvalid(symOK, IsSymlink(f))
    THEN <<Tombstone(f, f.Flags \cup {FlagInvalid}, f.Version)>>
    ELSE IF f.Name \notin disk
    THEN <<Tombstone(f, f.Flags \cup {FlagDeleted}, VectorUpdate(f.Version, scannerShortID))>>
    ELSE <<>>

\* strings.HasPrefix(f.Name, sub) for one of the subs, or no subs at all
hasPrefixOf(name, subs) ==
    Len(subs) = 0 \/ \E i \in 1..Len(subs) : HasPrefix(name, subs[i])

\* one s.fs.Update(LOCAL, batch): a write transaction of its own
scanUpdate(st, batch) ==
    LET r == update(Tx(st.devs, st.glo, st.clk), "LOCAL", batch)
    IN  [devs |-> r.devs, glo |-> r.glo, clk |-> r.clk]

\* the callback of WithHaveTruncated over the records have[i..]; d carries
\* seenPrefix, the batch, the store and the tombstones appended so far
RECURSIVE diffPassFrom(_, _, _, _, _, _, _, _)
diffPassFrom(have, i, subs, disk, ign, symOK, size, d) ==
    IF i > Len(have) THEN d
    ELSE LET f == have[i]
         IN  IF ~hasPrefixOf(f.Name, subs)
             THEN IF d.seenPrefix THEN d
                  ELSE diffPassFrom(have, i + 1, subs, disk, ign, symOK, size, d)
             ELSE LET d1 == [d EXCEPT !.seenPrefix = TRUE]
                  IN  IF IsDeleted(f) \/ IsInvalid(f)
                      THEN diffPassFrom(have, i + 1, subs, disk, ign, symOK, size, d1)
                      ELSE LET full == Len(d1.batch) = size
                               d2 == IF full
                                     THEN [d1 EXCEPT !.st = scanUpdate(@, d1.batch),
                                                     !.batch = <<>>,
                                                     !.updates = Append(@, d1.batch)]
                                     ELSE d1
                               nf == diffOf(f, disk, ign, symOK)
                           IN  diffPassFrom(have, i + 1, subs, disk, ign, symOK, size,
                                            [d2 EXCEPT !.batch = @ \o nf, !.diff = @ \o nf])

\* the diff pass: the iteration over LOCAL as the read transaction finds
\* it, then the last batch
diffPass(st, subs, disk, ign, symOK, size) ==
    LET d == diffPassFrom(withHave(st.devs, "LOCAL"), 1, subs, disk, ign, symOK, size,
                          [seenPrefix |-> FALSE, batch |-> <<>>, st |-> st,
                           diff |-> <<>>, updates |-> <<>>])
    IN  IF Len(d.batch) > 0
        THEN [d EXCEPT !.st = scanUpdate(@, d.batch), !.batch = <<>>,
                       !.updates = Append(@, d.batch)]
        ELSE d

\* a path lies in the tree of a sub: the elements of the sub are its first
\* elements
InTree(name, sub) ==
    \/ sub = DotPath
    \/ LET ne == SplitPath(name)
           se == SplitPath(sub)
       IN  Len(se) <= Len(ne) /\ SubSeq(ne, 1, Len(se)) = se

\* scanner.Walker: in name order, a FileInfo for every file on disk in
\* the tree of a sub (of the root when there is no sub) that is not ignored
\* and that the index does not hold as a file in use
walkFiles(devBuc, subs, disk, ign, symOK) ==
    LET news == {n \in disk :
                    /\ Len(subs) = 0 \/ \E i \in 1..Len(subs) : InTree(n, subs[i])
                    /\ n \notin ign
                    /\ n \in SymlinksOnDisk => symOK
                    /\ n \in DOMAIN devBuc => IsDeleted(devBuc[n]) \/ IsInvalid(devBuc[n])}
        rec(n) == [Name |-> n,
                   Version |-> VectorUpdate(IF n \in DOMAIN devBuc THEN devBuc[n].Version
                                            ELSE Vec(0, 0), scannerShortID),
                   LocalVersion |-> 0,
                   Flags |-> IF n \in SymlinksOnDisk THEN {FlagSymlink} ELSE {},
                   Blocks |-> IF n \in SymlinksOnDisk THEN <<>> ELSE <<"h1">>]
        bkt == [n \in news |-> rec(n)]
    IN  haveFrom(bkt, CursorFirst(bkt))

\* the batches of the walk: an Update for every batchSize files and one for
\* the rest
RECURSIVE walkUpdates(_, _, _)
walkUpdates(st, files, size) ==
    IF Len(files) = 0 THEN st
    ELSE IF Len(files) <= size THEN scanUpdate(st, files)
    ELSE walkUpdates(scanUpdate(st, SubSeq(files, 1, size)),
                     SubSeq(files, size + 1, Len(files)), size)

\* scan(subs): err, whether the walk was started, the store at the end,
\* the cleaned subs and what the diff pass did
scan(st, subs, disk, ign, symOK, healthy) ==
    LET native  == [i \in 1..Len(subs) |-> NativeFilename(subs[i])]
        cleaned == cleanSubs(RootPath, st.devs["LOCAL"], native)
        files   == walkFiles(st.devs["LOCAL"], cleaned, disk, ign, symOK)
        st1     == walkUpdates(st, files, batchSize)
        d       == diffPass(st1, cleaned, disk, ign, symOK, batchSize)
        none    == [err |-> TRUE, walked |-> FALSE, st |-> st, subs |-> <<>>,
                    files |-> <<>>, have |-> <<>>, diff |-> <<>>, updates |-> <<>>]
    IN  IF ~validSubs(RootPath, native) THEN none
        ELSE IF ~healthy THEN [none EXCEPT !.walked = TRUE, !.subs = cleaned, !.files = files]
        ELSE [err |-> FALSE, walked |-> TRUE, st |-> d.st, subs |-> cleaned, files |-> files,
              have |-> withHave(st1.devs, "LOCAL"), diff |-> d.diff, updates |-> d.updates]


(***************************************************************************)
(* The integrity tool (part_000, main): one pass over the keys of a data   *)
(* directory in key order - the device records, then the version lists,    *)
(* then the block entries - counting errors.  The directory holds one      *)
(* folder; files maps <<device, name>> to the record stored under that     *)
(* key, globals maps a name to the devices of its version list, blockKeys  *)
(* are the <<hash, name>> of the block entries.                            *)
(***************************************************************************)
EmptyLdb == [files |-> <<>>, globals |-> <<>>, blockKeys |-> {}, ran |-> FALSE, exit |-> 0]

\* case KeyTypeDevice: seenBlocks[string(b.Hash)] = struct{}{}
seenBlocks(files) ==
    UNION {{files[k].Blocks[i] : i \in 1..Len(files[k].Blocks)} : k \in DOMAIN files}

\* case KeyTypeGlobal: the version lists of length zero
zeroLengthLists(globals) == {n \in DOMAIN globals : Len(globals[n]) = 0}

\* case KeyTypeGlobal: the versions whose file is missing, or is there under
\* another name
badVersions(files, globals) ==
    {e \in {<<n, i>> : n \in DOMAIN globals, i \in 1..2} :
        /\ e[2] <= Len(globals[e[1]])
        /\ LET fk == <<globals[e[1]][e[2]], e[1]>>
           IN  fk \notin DOMAIN files \/ files[fk].Name # e[1]}

\* case KeyTypeBlock: "Unnecessary block in block map (non fatal)", errors++
unnecessaryBlocks_NonFatal(files, blockKeys) == {}
unnecessaryBlocks(files, blockKeys) == {b \in blockKeys : b[1] \notin seenBlocks(files)}

\* "Checking version consistency": the files no version list names are
\* printed; errors is left alone
notInVersions(files, globals) ==
    {k \in DOMAIN files :
        k[2] \notin DOMAIN globals
            \/ \A i \in 1..Len(globals[k[2]]) : globals[k[2]][i] # k[1]}

\* main: errors, and the exit status - log.Fatal when errors > 0
integrityErrors(l) ==
    Cardinality(zeroLengthLists(l.globals))
        + Cardinality(badVersions(l.files, l.globals))
        + Cardinality(unnecessaryBlocks(l.files, l.blockKeys))

integrityExit(l) == IF integrityErrors(l) > 0 THEN 1 ELSE 0


(***************************************************************************)
(* The set of files/set.go over bolt (part_009): a file has a name, a      *)
(* scalar version and the deleted flag; changes is m.changes[id] of one    *)
(* node id, bkt the bucket files/<repo>/<id>, glo the bucket               *)
(* global/<repo>, lamport the clock lamport.Default.                       *)
(***************************************************************************)
NewSet == [changes |-> 0, bkt |-> EmptyBucket, glo |-> EmptyBucket, lamport |-> 0,
           last |-> <<>>, calls |-> 0]

\* m.changes[id] = 0; for _, f := range fs { if f.Version > m.changes[id] { m.changes[id] = f.Version } }
RECURSIVE changesFrom(_, _)
changesFrom(c, fs) ==
    IF fs = <<>> THEN c
    ELSE changesFrom(IF Head(fs).Version > c THEN Head(fs).Version ELSE c, Tail(fs))

changesOf(old, fs) == changesFrom(0, fs)

\* boltUpdateBucket(bkt, nil, fs): every file is put under its name
RECURSIVE boltUpdateBucket(_, _)
boltUpdateBucket(bkt, fs) ==
    IF fs = <<>> THEN bkt
    ELSE boltUpdateBucket(Put(bkt, Head(fs).Name, Head(fs)), Tail(fs))

\* the cursor loop of boltReplaceWithDelete from key k on: a file in use
\* that the list does not name gets a ticked version and the deleted flag
RECURSIVE markDeletedFrom(_, _, _)
markDeletedFrom(st, nm, k) ==
    IF k = <<>> THEN st
    ELSE LET f == st.bkt[k]
         IN  IF ~f.Deleted /\ f.Name \notin nm
             THEN LET v == clock(st.lamport, f.Version)
                  IN  markDeletedFrom([st EXCEPT !.bkt = Put(@, k, [f EXCEPT !.Version = v,
                                                                            !.Deleted = TRUE]),
                                                 !.lamport = v],
                                      nm, CursorNext(st.bkt, k))
             ELSE markDeletedFrom(st, nm, CursorNext(st.bkt, k))

\* boltRebuildGlobal with the one node bucket: every file of the bucket is
\* put into the new global bucket
boltRebuildGlobal(st) == [st EXCEPT !.glo = st.bkt]

boltReplaceWithDelete(st, fs) ==
    LET s1 == [st EXCEPT !.bkt = boltUpdateBucket(@, fs)]
        nm == {fs[i].Name : i \in 1..Len(fs)}
    IN  boltRebuildGlobal(markDeletedFrom(s1, nm, CursorFirst(s1.bkt)))

\* boltReplace: the node bucket is deleted and created again
boltReplace(st, fs) ==
    boltRebuildGlobal([st EXCEPT !.bkt = boltUpdateBucket(EmptyBucket, fs)])

\* Set.ReplaceWithDelete(id, fs)
SetReplaceWithDelete(st, fs) ==
    [boltReplaceWithDelete([st EXCEPT !.changes = changesOf(st.changes, fs)], fs)
        EXCEPT !.last = fs]

\* Set.Replace(id, fs)
SetReplace(st, fs) ==
    [boltReplace([st EXCEPT !.changes = changesOf(st.changes, fs)], fs) EXCEPT !.last = fs]

\* Set.Changes(id)
Changes(st) == st.changes

(***************************************************************************)
(* The same set with every node id: files maps a node id to its bucket     *)
(* files/<repo>/<id>, glo is global/<repo>, changes maps a node id to      *)
(* m.changes[id].                                                          *)
(***************************************************************************)
\* cid.LocalID and one remote connection id
NodeIDs == {0, 1}

NewGlobalSet == [files |-> [id \in NodeIDs |-> EmptyBucket], glo |-> EmptyBucket,
                 changes |-> [id \in NodeIDs |-> 0], lamport |-> 0, calls |-> 0]

\* scanner.File.NewerThan
NewerThan(f, o) == f.Version > o.Version

\* A variant of putNewer: the global record follows the file put last.
putNewer_Always(gbkt, f) == Put(gbkt, f.Name, f)

\* a file is put into the global bucket when the bucket has none of its
\* name or an older one
putNewer(gbkt, f) ==
    IF f.Name \notin DOMAIN gbkt THEN Put(gbkt, f.Name, f)
    ELSE IF NewerThan(f, gbkt[f.Name]) THEN Put(gbkt, f.Name, f)
    ELSE gbkt

\* boltUpdateBucket(bkt, gbkt, fs) with a global bucket
RECURSIVE updateBucketGlobal(_, _)
updateBucketGlobal(b, fs) ==
    IF fs = <<>> THEN b
    ELSE updateBucketGlobal([bkt |-> Put(b.bkt, Head(fs).Name, Head(fs)),
                             gbkt |-> putNewer(b.gbkt, Head(fs))], Tail(fs))

\* boltRebuildGlobal, the loop over the files of one node bucket from key
\* k on
RECURSIVE rebuildNode(_, _, _)
rebuildNode(gbkt, bkt, k) ==
    IF k = <<>> THEN gbkt
    ELSE rebuildNode(putNewer(gbkt, bkt[k]), bkt, CursorNext(bkt, k))

\* boltRebuildGlobal, the loop over the node buckets in key order
RECURSIVE rebuildFrom(_, _, _)
rebuildFrom(files, ids, gbkt) ==
    IF ids = {} THEN gbkt
    ELSE LET id == CHOOSE x \in ids : \A y \in ids : x <= y
         IN  rebuildFrom(files, ids \ {id},
                         rebuildNode(gbkt, files[id], CursorFirst(files[id])))

\* boltRebuildGlobal: the global bucket is deleted and built again
rebuildGlobal(st) == [st EXCEPT !.glo = rebuildFrom(st.files, NodeIDs, EmptyBucket)]

boltUpdate(st, id, fs) ==
    LET b == updateBucketGlobal([bkt |-> st.files[id], gbkt |-> st.glo], fs)
    IN  [st EXCEPT !.files[id] = b.bkt, !.glo = b.gbkt]

\* boltReplace for a node id
replaceNode(st, id, fs) ==
    rebuildGlobal([st EXCEPT !.files[id] = boltUpdateBucket(EmptyBucket, fs)])

\* boltReplaceWithDelete for a node id
replaceWithDeleteNode(st, id, fs) ==
    LET m == markDeletedFrom([bkt |-> boltUpdateBucket(st.files[id], fs),
                              lamport |-> st.lamport],
                             {fs[i].Name : i \in 1..Len(fs)},
                             CursorFirst(boltUpdateBucket(st.files[id], fs)))
    IN  rebuildGlobal([st EXCEPT !.files[id] = m.bkt, !.lamport = m.lamport])

\* Set.Update(id, fs): the counter under cMut, then the transaction
SetUpdate(st, id, fs) ==
    boltUpdate([st EXCEPT !.changes[id] = changesFrom(@, fs)], id, fs)

\* Set.Replace(id, fs) for a node id
SetReplaceNode(st, id, fs) ==
    replaceNode([st EXCEPT !.changes[id] = changesFrom(0, fs)], id, fs)

\* Set.ReplaceWithDelete(id, fs) for a node id
SetReplaceWithDeleteNode(st, id, fs) ==
    replaceWithDeleteNode([st EXCEPT !.changes[id] = changesFrom(0, fs)], id, fs)

(***************************************************************************)
(* Two tasks calling Replace, ReplaceWithDelete and Update of the set for  *)
(* the same node id.  cMut is m.cMut: 0 when free, else the task that      *)
(* holds it; id is the node id of the calls; implied is the counter the    *)
(* calls give when run one after the other in the order of their           *)
(* transactions.                                                           *)
(***************************************************************************)
Tasks == {1, 2}

SetOps == {"Replace", "ReplaceWithDelete", "Update"}

IdleTask == [pc |-> "idle", op |-> "Update", fs |-> <<>>]

NoRace == [set |-> NewGlobalSet, id |-> 0, cMut |-> 0, tasks |-> [t \in Tasks |-> IdleTask],
           implied |-> 0]

\* the loop over fs under cMut: Replace and ReplaceWithDelete start from 0,
\* Update from the counter as it is
counted(op, c, fs) == IF op = "Update" THEN changesFrom(c, fs) ELSE changesFrom(0, fs)

\* m.db.Update(boltReplace / boltReplaceWithDelete / boltUpdate (id, m.repo, fs))
dbUpdate(op, st, id, fs) ==
    IF op = "Replace" THEN replaceNode(st, id, fs)
    ELSE IF op = "ReplaceWithDelete" THEN replaceWithDeleteNode(st, id, fs)
    ELSE boltUpdate(st, id, fs)


(***************************************************************************)
(* Changed and Iterate of the BlockFinder, run by two goroutines.  mut is  *)
(* f.mut: "free", "r" (held by the reader) or "w" (held by the writer).    *)
(***************************************************************************)
NoIter == [pc |-> "idle", hash |-> "", folders |-> <<>>, fi |-> 0, visited |-> <<>>,
           calls |-> <<>>, snap |-> EmptyBucket, cands |-> {}]

NoChange == [pc |-> "idle", folders |-> <<>>, cfg |-> <<>>]

NoConc == [mut |-> "free", chg |-> NoChange, it |-> NoIter, adds |-> 0, changes |-> 0]

\* f.mut.Lock() returns when nobody holds the mutex
CanLock(mut) == mut = "free"

\* f.mut.RLock() returns when no writer holds the mutex
CanRLock(mut) == mut # "w"

\* the slice the loop of Iterate ranges over: the local copy taken under
\* the reader lock
rangeOver_Shared(local, shared) == shared
rangeOver(local, shared) == local

Init ==
    /\ dev = [d \in Devices |-> EmptyBucket]
    /\ glob = EmptyBucket
    /\ clockTick = 0
    /\ nops = 0
    /\ cmp = NoCmp
    /\ rd = NoRead
    /\ fault = NoFault
    /\ blocks = [folBkt |-> EmptyBucket, panicked |-> FALSE]
    /\ fix = NoFix
    /\ blocBuc = EmptyBucket
    /\ finder = [cfg |-> <<>>, folders |-> <<>>]
    /\ conc = NoConc
    /\ scn = NoScan
    /\ subsCall = NoSubsCall
    /\ ldb = EmptyLdb
    /\ cset = NewSet
    /\ gset = NewGlobalSet
    /\ race = NoRace
    /\ loop = NoLoop

\* The transaction commits: its buckets and the clock become the store.
Commit(st) ==
    /\ dev' = st.devs
    /\ glob' = st.glo
    /\ clockTick' = st.clk
    /\ nops' = nops + 1
    /\ UNCHANGED <<cmp, rd, fault, blocks, finderVars>>

Update ==
    \E device \in Devices, fs \in FileLists :
        /\ nops < MaxOps
        /\ Commit(update(Tx(dev, glob, clockTick), device, fs))

Replace ==
    \E device \in Devices, fs \in FileLists :
        /\ nops < MaxOps
        /\ Commit(replace(Tx(dev, glob, clockTick), device, fs))

ReplaceWithDelete ==
    \E device \in Devices, fs \in FileLists, myID \in MyIDs :
        /\ nops < MaxOps
        /\ Commit(replaceWithDelete(Tx(dev, glob, clockTick), device, fs, myID))

Next == Update \/ Replace \/ ReplaceWithDelete

Spec == Init /\ [][Next]_vars

(***************************************************************************)
(* The version list of one file under updateGlobal / removeFromGlobal      *)
(* alone, called for three devices with any versions.                      *)
(***************************************************************************)
GDevices == {"LOCAL", "REMOTE1", "REMOTE2"}

GName == <<1>>

UpdateGlobal ==
    \E device \in GDevices, version \in Vectors(MaxGCounter) :
        /\ glob' = updateGlobal(glob, device, GName, version)
        /\ UNCHANGED <<dev, clockTick, nops, cmp, rd, fault, blocks, finderVars>>

RemoveFromGlobal ==
    \E device \in GDevices :
        /\ glob' = removeFromGlobal(glob, device, GName)
        /\ UNCHANGED <<dev, clockTick, nops, cmp, rd, fault, blocks, finderVars>>

NextGlobal == UpdateGlobal \/ RemoveFromGlobal

SpecGlobal == Init /\ [][NextGlobal]_vars

(***************************************************************************)
(* Compare applied to three vectors.                                       *)
(***************************************************************************)
CompareVectors ==
    \E a \in Vectors(MaxCounter), b \in Vectors(MaxCounter), c \in Vectors(MaxCounter) :
        /\ ~cmp.set
        /\ cmp' = [set |-> TRUE, a |-> a, b |-> b, c |-> c,
                   ab |-> VectorCompare(a, b), ba |-> VectorCompare(b, a),
                   bc |-> VectorCompare(b, c), ac |-> VectorCompare(a, c)]
        /\ UNCHANGED <<dev, glob, clockTick, nops, rd, fault, blocks, finderVars>>

SpecCompare == Init /\ [][CompareVectors]_vars

(***************************************************************************)
(* One iteration (withGlobal, withHave or withNeed) running while other    *)
(* goroutines write.  db.View hands the callback a read transaction: the   *)
(* buckets as of the moment it was opened.  Every turn of the cursor loop  *)
(* is one step, and whole write transactions commit between the steps.     *)
(***************************************************************************)
ReadKinds == {"global", "have", "need"}

\* A variant of TxBuckets: the device records are looked up in the store
\* as it is now, outside the read transaction.
TxBuckets_LiveRecords(opened, live) == [devs |-> live.devs, glo |-> opened.glo]

\* The buckets the callback of db.View reaches through tx.
TxBuckets(opened, live) == opened

\* The bucket the cursor of the iteration runs over.
ReadCursorBucket(kind, b, device) ==
    IF kind = "have" THEN b.devs[device] ELSE b.glo

\* What one turn of the cursor loop hands to the caller's fn.
ReadItems(kind, b, device, k) ==
    IF kind = "global" THEN <<globalFile(b.devs, b.glo, k)>>
    ELSE IF kind = "need" THEN needFile(b.devs, b.glo, device, k)
    ELSE <<GetRecord(b.devs, device, k)>>

\* The whole iteration over given buckets.
ReadAll(kind, b, device) ==
    IF kind = "global" THEN withGlobal(b.devs, b.glo)
    ELSE IF kind = "need" THEN withNeed(b.devs, b.glo, device)
    ELSE withHave(b.devs, device)

OpenRead ==
    \E kind \in ReadKinds, device \in Devices :
        /\ rd.state = "idle"
        /\ LET opened == [devs |-> dev, glo |-> glob]
               b == TxBuckets(opened, opened)
           IN  rd' = [state |-> "open", kind |-> kind, device |-> device,
                      opened |-> opened,
                      k |-> CursorFirst(ReadCursorBucket(kind, b, device)),
                      out |-> <<>>]
        /\ UNCHANGED <<dev, glob, clockTick, nops, cmp, fault, blocks, finderVars>>

ReadStep ==
    /\ rd.state = "open"
    /\ LET b == TxBuckets(rd.opened, [devs |-> dev, glo |-> glob])
           items == ReadItems(rd.kind, b, rd.device, rd.k)
       IN  IF rd.k = <<>>
           THEN rd' = [rd EXCEPT !.state = "done"]
           ELSE IF items # <<>> /\ IsPanic(items[1])
           THEN rd' = [rd EXCEPT !.state = "done", !.out = @ \o items]
           ELSE rd' = [rd EXCEPT !.out = @ \o items,
                                 !.k = CursorNext(ReadCursorBucket(rd.kind, b, rd.device), rd.k)]
    /\ UNCHANGED <<dev, glob, clockTick, nops, cmp, fault, blocks, finderVars>>

ConcurrentWrite ==
    \E device \in Devices, fs \in FileLists, myID \in MyIDs :
        /\ nops < MaxWrites
        /\ \/ Commit(update(Tx(dev, glob, clockTick), device, fs))
           \/ Commit(replace(Tx(dev, glob, clockTick), device, fs))
           \/ Commit(replaceWithDelete(Tx(dev, glob, clockTick), device, fs, myID))

NextConcurrent == OpenRead \/ ReadStep \/ ConcurrentWrite

SpecConcurrent == Init /\ [][NextConcurrent]_vars

(***************************************************************************)
(* A write that meets a fault.  bad names the stored values that no longer *)
(* decode: bad.rec the keys <<device, name>> of device records, bad.vl the *)
(* names of version lists.  Each operator returns the buckets of the       *)
(* transaction as far as it got, and whether the callback panicked.        *)
(***************************************************************************)
BadRecord(bad, st, device, name) ==
    name \in DOMAIN st.devs[device] /\ <<device, name>> \in bad.rec

BadList(bad, st, name) == name \in DOMAIN st.glo /\ name \in bad.vl

Running(st) == [st |-> st, aborted |-> FALSE]

Panicked(st) == [st |-> st, aborted |-> TRUE]

\* insert, then updateGlobal or removeFromGlobal, which unmarshal the
\* stored list and panic when that fails
insertAndGlobalFault(st, device, f, bad) ==
    IF BadList(bad, st, f.Name) THEN Panicked(insert(st, device, f))
    ELSE Running(insertAndGlobal(st, device, f))

RECURSIVE updateFaultFrom(_, _, _, _, _)
updateFaultFrom(st, device, fs, i, bad) ==
    IF i > Len(fs) THEN Running(st)
    ELSE LET f      == fs[i]
             devBuc == st.devs[device]
             r      == insertAndGlobalFault(st, device, f, bad)
         IN  IF f.Name \notin DOMAIN devBuc
             THEN IF r.aborted THEN r
                  ELSE updateFaultFrom(r.st, device, fs, i + 1, bad)
             ELSE IF BadRecord(bad, st, device, f.Name) THEN Panicked(st)
             ELSE IF Differs(devBuc[f.Name], f)
             THEN IF r.aborted THEN r
                  ELSE updateFaultFrom(r.st, device, fs, i + 1, bad)
             ELSE updateFaultFrom(st, device, fs, i + 1, bad)

updateFault(st, device, fs, bad) == updateFaultFrom(st, device, fs, 1, bad)

\* The deletion handlers: replace reads the list only; replaceWithDelete
\* unmarshals the record, writes the tombstone and then reads the list.
deleteFnFault(st, device, name, withDelete, myID, bad) ==
    LET full == replaceWithDeleteFn(st, device, name, myID)
    IN  IF ~withDelete
        THEN IF BadList(bad, st, name) THEN Panicked(st)
             ELSE Running(replaceDeleteFn(st, device, name))
        ELSE IF BadRecord(bad, st, device, name) THEN Panicked(st)
        ELSE IF IsDeleted(st.devs[device][name]) THEN Running(st)
        ELSE IF BadList(bad, st, name)
        THEN Panicked([full EXCEPT !.glo = st.glo, !.maxLocalVer = st.maxLocalVer])
        ELSE Running(full)

\* genericReplace; in the case "exists - compare" the error of UnmarshalXDR
\* is dropped, so a record that does not decode is compared as whatever
\* was decoded of it: garbageDiffers.
RECURSIVE replaceLoopFault(_, _, _, _, _, _, _, _, _, _)
replaceLoopFault(st, device, fs, fsi, k, v, withDelete, myID, bad, garbageDiffers) ==
    LET moreDb  == k # <<>>
        moreFs  == fsi <= Len(fs)
        newName == IF moreFs THEN fs[fsi].Name ELSE <<>>
        oldName == IF moreDb THEN k ELSE <<>>
        c       == BytesCompare(newName, oldName)
    IN  IF ~moreDb /\ ~moreFs THEN Running(st)
        ELSE IF moreFs /\ (~moreDb \/ c = -1)
        THEN LET r == insertAndGlobalFault(st, device, fs[fsi], bad)
             IN  IF r.aborted THEN r
                 ELSE replaceLoopFault(r.st, device, fs, fsi + 1, k, v,
                                       withDelete, myID, bad, garbageDiffers)
        ELSE IF moreFs /\ moreDb /\ c = 0
        THEN LET differs == IF BadRecord(bad, st, device, k) THEN garbageDiffers
                            ELSE Differs(v, fs[fsi])
                 r  == IF differs THEN insertAndGlobalFault(st, device, fs[fsi], bad)
                       ELSE Running(st)
                 nk == CursorNext(r.st.devs[device], k)
             IN  IF r.aborted THEN r
                 ELSE replaceLoopFault(r.st, device, fs, fsi + 1, nk,
                                       ValueAt(r.st.devs[device], nk),
                                       withDelete, myID, bad, garbageDiffers)
        ELSE LET r  == deleteFnFault(st, device, oldName, withDelete, myID, bad)
                 nk == CursorNext(r.st.devs[device], k)
             IN  IF r.aborted THEN r
                 ELSE replaceLoopFault(r.st, device, fs, fsi, nk,
                                       ValueAt(r.st.devs[device], nk),
                                       withDelete, myID, bad, garbageDiffers)

genericReplaceFault(st, device, fs, withDelete, myID, bad, garbageDiffers) ==
    LET sorted == SortByName(fs)
        k      == CursorFirst(st.devs[device])
    IN  replaceLoopFault(st, device, sorted, 1, k, ValueAt(st.devs[device], k),
                         withDelete, myID, bad, garbageDiffers)

WriteOps == {"update", "replace", "replaceWithDelete"}

writeFault(op, st, device, fs, myID, bad, garbageDiffers) ==
    IF op = "update" THEN updateFault(st, device, fs, bad)
    ELSE genericReplaceFault(st, device, fs, op = "replaceWithDelete", myID,
                             bad, garbageDiffers)

\* A variant of DbUpdate: what the callback wrote before it stopped is kept.
DbUpdate_KeepPartial(pre, out, commitError) == out.st

\* db.Update: the writes of the callback become the store when it returns
\* and the commit succeeds; a panic or a failed commit rolls them back.
DbUpdate(pre, out, commitError) ==
    IF out.aborted \/ commitError THEN pre ELSE out.st

\* One stored value is damaged: a device record or a version list.
BadSets ==
    {[rec |-> {<<d, n>>}, vl |-> {}] : d \in Devices, n \in DOMAIN glob}
        \cup {[rec |-> {}, vl |-> {n}] : n \in DOMAIN glob}

Faulted(pre, out, commitError) ==
    LET post == DbUpdate(pre, out, commitError)
    IN  /\ dev' = post.devs
        /\ glob' = post.glo
        /\ clockTick' = out.st.clk
        /\ nops' = nops + 1
        /\ fault' = [done |-> TRUE, aborted |-> out.aborted \/ commitError,
                     panicked |-> out.aborted,
                     pre |-> [devs |-> pre.devs, glo |-> pre.glo],
                     partial |-> [devs |-> out.st.devs, glo |-> out.st.glo]]
        /\ UNCHANGED <<cmp, rd, blocks, finderVars>>

\* a write that runs into a value that does not decode
FaultyWrite ==
    \E op \in WriteOps, device \in Devices, fs \in FileLists, myID \in MyIDs,
       bad \in BadSets, garbageDiffers \in BOOLEAN :
        /\ ~fault.done
        /\ LET pre == Tx(dev, glob, clockTick)
           IN  Faulted(pre, writeFault(op, pre, device, fs, myID, bad, garbageDiffers), FALSE)

\* a write whose commit fails
FailedCommit ==
    \E op \in WriteOps, device \in Devices, fs \in FileLists, myID \in MyIDs :
        /\ ~fault.done
        /\ LET pre == Tx(dev, glob, clockTick)
           IN  Faulted(pre, writeFault(op, pre, device, fs, myID, [rec |-> {}, vl |-> {}], FALSE), TRUE)

\* the writes before the fault
SoundWrite ==
    \E device \in Devices, fs \in FileLists, myID \in MyIDs :
        /\ ~fault.done
        /\ nops < MaxSoundWrites
        /\ \/ Commit(update(Tx(dev, glob, clockTick), device, fs))
           \/ Commit(replace(Tx(dev, glob, clockTick), device, fs))
           \/ Commit(replaceWithDelete(Tx(dev, glob, clockTick), device, fs, myID))

NextFault == SoundWrite \/ FaultyWrite \/ FailedCommit

SpecFault == Init /\ [][NextFault]_vars

(***************************************************************************)
(* The block map under its own calls, with any files.                      *)
(***************************************************************************)
Hashes == {"h1", "h2"}

BlockLists == UNION {[1..n -> Hashes] : n \in 0..MaxBlocks}

BlockFlags == {{}, {FlagDeleted}, {FlagInvalid}, {FlagDirectory}}

BlockFiles == [Name : Names, Flags : BlockFlags, Blocks : BlockLists]

BlockFileLists == UNION {[1..n -> BlockFiles] : n \in 0..MaxFiles}

BlocksUnchanged == UNCHANGED <<dev, glob, clockTick, nops, cmp, rd, fault, finderVars>>

Add ==
    \E files \in BlockFileLists :
        /\ ~blocks.panicked
        /\ blocks' = [blocks EXCEPT !.folBkt = BlockMapAdd(@, files)]
        /\ BlocksUnchanged

UpdateBlocks ==
    \E files \in BlockFileLists :
        /\ ~blocks.panicked
        /\ blocks' = BlockMapUpdate(blocks.folBkt, files)
        /\ BlocksUnchanged

Discard ==
    \E files \in BlockFileLists :
        /\ ~blocks.panicked
        /\ blocks' = [blocks EXCEPT !.folBkt = BlockMapDiscard(@, files)]
        /\ BlocksUnchanged

Drop ==
    /\ ~blocks.panicked
    /\ blocks' = [blocks EXCEPT !.folBkt = BlockMapDrop(@)]
    /\ BlocksUnchanged

Fix ==
    \E file \in Names, index \in 0..(MaxBlocks - 1), oldHash \in Hashes, newHash \in Hashes :
        /\ ~blocks.panicked
        /\ blocks' = [blocks EXCEPT !.folBkt = BlockFinderFix(@, file, index, oldHash, newHash)]
        /\ BlocksUnchanged

NextBlockMap == Add \/ UpdateBlocks \/ Discard \/ Drop \/ Fix

SpecBlockMap == Init /\ [][NextBlockMap]_vars

(***************************************************************************)
(* The file set of LOCAL and the block map kept side by side: every write  *)
(* of LOCAL's records is followed by the block map call for the same       *)
(* files.                                                                  *)
(***************************************************************************)
PairedFile(n, ver, fl, bl) == [File(n, ver, fl, 0) EXCEPT !.Blocks = bl]

\* a file, the same file with another block list, its tombstone and its
\* invalid record (both without blocks, as the scanner makes them), and a
\* second file
PairedInputs ==
    {PairedFile(<<1>>, Vec(1, 0), {}, <<"h1", "h2">>),
     PairedFile(<<1>>, Vec(2, 0), {}, <<"h2">>),
     PairedFile(<<1>>, Vec(3, 0), {FlagDeleted}, <<>>),
     PairedFile(<<1>>, Vec(1, 0), {FlagInvalid}, <<>>),
     PairedFile(<<2>>, Vec(1, 0), {}, <<"h1">>)}

\* a call names a file once
PairedLists ==
    {fs \in UNION {[1..n -> PairedInputs] : n \in 0..MaxFiles} :
        \A i, j \in 1..Len(fs) : i # j => fs[i].Name # fs[j].Name}

PairedCommit(st, bm) ==
    /\ dev' = st.devs
    /\ glob' = st.glo
    /\ clockTick' = st.clk
    /\ nops' = nops + 1
    /\ blocks' = bm
    /\ UNCHANGED <<cmp, rd, fault, finderVars>>

PairedAdd ==
    \E fs \in PairedLists :
        /\ nops < MaxPairedOps
        /\ PairedCommit(update(Tx(dev, glob, clockTick), "LOCAL", fs),
                        [blocks EXCEPT !.folBkt = BlockMapAdd(@, fs)])

PairedUpdate ==
    \E fs \in PairedLists :
        /\ nops < MaxPairedOps
        /\ PairedCommit(update(Tx(dev, glob, clockTick), "LOCAL", fs),
                        BlockMapUpdate(blocks.folBkt, fs))

PairedDiscard ==
    \E fs \in PairedLists :
        /\ nops < MaxPairedOps
        /\ \A i \in 1..Len(fs) : IsDeleted(fs[i]) \/ IsInvalid(fs[i])
        /\ PairedCommit(update(Tx(dev, glob, clockTick), "LOCAL", fs),
                        [blocks EXCEPT !.folBkt = BlockMapDiscard(@, fs)])

PairedReplaceWithDelete ==
    \E fs \in PairedLists, myID \in MyIDs :
        /\ nops < MaxPairedOps
        /\ PairedCommit(replaceWithDelete(Tx(dev, glob, clockTick), "LOCAL", fs, myID),
                        BlockMapUpdate(blocks.folBkt, fs))

\* a block of a stored file is announced with another hash: the record is
\* updated and the entry of the old hash is moved over
PairedFix ==
    \E f \in PairedInputs, index \in 0..(MaxBlocks - 1) :
        /\ nops < MaxPairedOps
        /\ f.Name \in DOMAIN dev["LOCAL"]
        /\ index < Len(f.Blocks)
        /\ index < Len(dev["LOCAL"][f.Name].Blocks)
        /\ dev["LOCAL"][f.Name].Blocks[index + 1] # f.Blocks[index + 1]
        /\ PairedCommit(update(Tx(dev, glob, clockTick), "LOCAL", <<f>>),
                        [blocks EXCEPT !.folBkt =
                            BlockFinderFix(@, f.Name, index,
                                           dev["LOCAL"][f.Name].Blocks[index + 1],
                                           f.Blocks[index + 1])])

NextPaired ==
    PairedAdd \/ PairedUpdate \/ PairedDiscard \/ PairedReplaceWithDelete \/ PairedFix

SpecPaired == Init /\ [][NextPaired]_vars

(***************************************************************************)
(* Fix step by step.  Its callback works on the buckets of its write       *)
(* transaction (fix.tx); db.Update makes them the store when the callback  *)
(* returns.  An Iterate of another goroutine reads the store.              *)
(***************************************************************************)
\* A variant of fixDelete: the entry of the old hash is left in place.
fixDelete_KeepOld(folBkt, file, oldHash) == folBkt

\* bkt := folBkt.Bucket(oldHash); if bkt != nil { bkt.Delete(file) }
fixDelete(folBkt, file, oldHash) ==
    IF oldHash \in DOMAIN folBkt
    THEN Put(folBkt, oldHash, Delete(folBkt[oldHash], file))
    ELSE folBkt

\* bkt = folBkt.CreateBucketIfNotExists(newHash); bkt.Put(file, buf)
fixPut(folBkt, file, index, newHash) ==
    Put(folBkt, newHash, Put(HashBucket(folBkt, newHash), file, index))

FixUnchanged == UNCHANGED <<setVars, blocBuc, finder, conc, scn, subsCall, ldb, cset, gset, race, loop>>

\* the block map is filled before Fix is called
FixPrepare ==
    \E files \in BlockFileLists :
        /\ fix.state = "idle"
        /\ fix.seen = <<>>
        /\ blocks' = [blocks EXCEPT !.folBkt = BlockMapAdd(@, files)]
        /\ UNCHANGED fix
        /\ FixUnchanged

FixBegin ==
    \E file \in Names, index \in 0..(MaxBlocks - 1), oldHash \in Hashes, newHash \in Hashes :
        /\ fix.state = "idle"
        /\ fix.seen = <<>>
        /\ fix' = [fix EXCEPT !.state = "begun", !.file = file, !.index = index,
                              !.oldHash = oldHash, !.newHash = newHash,
                              !.pre = blocks.folBkt, !.tx = blocks.folBkt]
        /\ UNCHANGED blocks
        /\ FixUnchanged

FixDelete ==
    /\ fix.state = "begun"
    /\ fix' = [fix EXCEPT !.state = "deleted",
                          !.tx = fixDelete(@, fix.file, fix.oldHash)]
    /\ UNCHANGED blocks
    /\ FixUnchanged

FixPut ==
    /\ fix.state = "deleted"
    /\ fix' = [fix EXCEPT !.state = "put",
                          !.tx = fixPut(@, fix.file, fix.index, fix.newHash)]
    /\ UNCHANGED blocks
    /\ FixUnchanged

FixCommit ==
    /\ fix.state = "put"
    /\ blocks' = [blocks EXCEPT !.folBkt = fix.tx]
    /\ fix' = [fix EXCEPT !.state = "done"]
    /\ FixUnchanged

\* A variant of ViewBuckets: the reader sees the writes of the running
\* callback.
ViewBuckets_Uncommitted(committed, working, running) ==
    IF running THEN working ELSE committed

\* f.db.View: the buckets a read transaction reads
ViewBuckets(committed, working, running) == committed

\* Iterate of another goroutine, once, at any moment
FixIterate ==
    \E hash \in Hashes :
        /\ fix.seen = <<>>
        /\ fix' = [fix EXCEPT !.seen =
                      <<[hash |-> hash, at |-> fix.state,
                         out |-> BlockFinderIterate(
                                    ViewBuckets(blocks.folBkt, fix.tx,
                                                fix.state \in {"begun", "deleted", "put"}),
                                    hash)]>>]
        /\ UNCHANGED blocks
        /\ FixUnchanged

NextFix == FixPrepare \/ FixBegin \/ FixDelete \/ FixPut \/ FixCommit \/ FixIterate

SpecFix == Init /\ [][NextFix]_vars

(***************************************************************************)
(* The block finder: the configuration changes, and the block maps of the  *)
(* folders are written.                                                    *)
(***************************************************************************)
FolderIDs == {<<1>>, <<2>>}

Configs == UNION {[1..n -> FolderIDs] : n \in 0..MaxFolders}

\* files in use, as a block map is handed them one at a time
FinderFiles == [Name : Names, Flags : {{}}, Blocks : {<<"h1">>, <<"h2">>, <<"h1", "h2">>}]

FinderUnchanged == UNCHANGED <<setVars, blocks, fix, conc, scn, subsCall, ldb, cset, gset, race, loop>>

FolderBucket(bloc, folder) == IF folder \in DOMAIN bloc THEN bloc[folder] ELSE EmptyBucket

Changed ==
    \E cfg \in Configs :
        /\ finder' = [cfg |-> cfg, folders |-> changed(cfg)]
        /\ UNCHANGED blocBuc
        /\ FinderUnchanged

FinderAdd ==
    \E folder \in FolderIDs, file \in FinderFiles :
        /\ blocBuc' = Put(blocBuc, folder, BlockMapAdd(FolderBucket(blocBuc, folder), <<file>>))
        /\ UNCHANGED finder
        /\ FinderUnchanged

FinderDiscard ==
    \E folder \in FolderIDs, file \in FinderFiles :
        /\ blocBuc' = Put(blocBuc, folder, BlockMapDiscard(FolderBucket(blocBuc, folder), <<file>>))
        /\ UNCHANGED finder
        /\ FinderUnchanged


(***************************************************************************)
(* SpecConcFinder: one goroutine calls Changed again and again, another    *)
(* calls Iterate again and again, a third one adds files to the block      *)
(* maps.  Every statement that touches f.mut or f.folders is a step.       *)
(***************************************************************************)
ConcUnchanged == UNCHANGED <<setVars, blocks, fix, scn, subsCall, ldb, cset, gset, race, loop>>

\* Changed: the IDs of cfg.Folders are copied into a new slice and sorted
ConcChangedBuild ==
    /\ conc.chg.pc = "idle"
    /\ conc.changes < MaxChanges
    /\ \E cfg \in Configs :
          conc' = [conc EXCEPT !.chg = [pc |-> "built", folders |-> changed(cfg), cfg |-> cfg],
                               !.changes = @ + 1]
    /\ UNCHANGED <<finder, blocBuc>>
    /\ ConcUnchanged

\* f.mut.Lock()
ConcChangedLock ==
    /\ conc.chg.pc = "built"
    /\ CanLock(conc.mut)
    /\ conc' = [conc EXCEPT !.mut = "w", !.chg.pc = "locked"]
    /\ UNCHANGED <<finder, blocBuc>>
    /\ ConcUnchanged

\* f.folders = folders
ConcChangedAssign ==
    /\ conc.chg.pc = "locked"
    /\ finder' = [cfg |-> conc.chg.cfg, folders |-> conc.chg.folders]
    /\ conc' = [conc EXCEPT !.chg.pc = "assigned",
                            !.it.cands = IF conc.it.pc \in {"idle", "done"} THEN @
                                         ELSE @ \cup {conc.chg.folders}]
    /\ UNCHANGED blocBuc
    /\ ConcUnchanged

\* f.mut.Unlock(); return nil
ConcChangedUnlock ==
    /\ conc.chg.pc = "assigned"
    /\ conc' = [conc EXCEPT !.mut = "free", !.chg = NoChange]
    /\ UNCHANGED <<finder, blocBuc>>
    /\ ConcUnchanged

\* Iterate(hash, iterFn) is called; cands collects the lists f.folders
\* holds from now on
ConcIterCall ==
    /\ conc.it.pc \in {"idle", "done"}
    /\ \E hash \in Hashes :
          conc' = [conc EXCEPT !.it = [NoIter EXCEPT !.pc = "called", !.hash = hash,
                                                     !.cands = {finder.folders}]]
    /\ UNCHANGED <<finder, blocBuc>>
    /\ ConcUnchanged

\* f.mut.RLock()
ConcIterRLock ==
    /\ conc.it.pc = "called"
    /\ CanRLock(conc.mut)
    /\ conc' = [conc EXCEPT !.mut = "r", !.it.pc = "rlocked"]
    /\ UNCHANGED <<finder, blocBuc>>
    /\ ConcUnchanged

\* folders := f.folders
ConcIterCopy ==
    /\ conc.it.pc = "rlocked"
    /\ conc' = [conc EXCEPT !.it.pc = "copied", !.it.folders = finder.folders]
    /\ UNCHANGED <<finder, blocBuc>>
    /\ ConcUnchanged

\* f.mut.RUnlock()
ConcIterRUnlock ==
    /\ conc.it.pc = "copied"
    /\ conc' = [conc EXCEPT !.mut = "free", !.it.pc = "unlocked"]
    /\ UNCHANGED <<finder, blocBuc>>
    /\ ConcUnchanged

\* f.db.View(...): the read transaction opens
ConcIterView ==
    /\ conc.it.pc = "unlocked"
    /\ conc' = [conc EXCEPT !.it.pc = "scanning", !.it.fi = 1,
                            !.it.snap = ViewBuckets(blocBuc, blocBuc, FALSE)]
    /\ UNCHANGED <<finder, blocBuc>>
    /\ ConcUnchanged

\* one round of the loop over the folders, with an iterFn that accepts
\* nothing
ConcIterVisit ==
    /\ conc.it.pc = "scanning"
    /\ LET list == rangeOver(conc.it.folders, finder.folders)
       IN  /\ conc.it.fi <= Len(list)
           /\ conc' = [conc EXCEPT
                 !.it.fi = @ + 1,
                 !.it.visited = Append(@, list[conc.it.fi]),
                 !.it.calls = iterateFolders(conc.it.snap, <<list[conc.it.fi]>>,
                                             conc.it.hash, 1, @, 0).calls]
    /\ UNCHANGED <<finder, blocBuc>>
    /\ ConcUnchanged

\* the loop is over: the read transaction closes and Iterate returns
ConcIterReturn ==
    /\ conc.it.pc = "scanning"
    /\ conc.it.fi > Len(rangeOver(conc.it.folders, finder.folders))
    /\ conc' = [conc EXCEPT !.it.pc = "done"]
    /\ UNCHANGED <<finder, blocBuc>>
    /\ ConcUnchanged

\* BlockMap.Add of a folder, by a third goroutine
ConcAdd ==
    /\ conc.adds < MaxConcAdds
    /\ \E folder \in FolderIDs : \E file \in FinderFiles :
          blocBuc' = Put(blocBuc, folder, BlockMapAdd(FolderBucket(blocBuc, folder), <<file>>))
    /\ conc' = [conc EXCEPT !.adds = @ + 1]
    /\ UNCHANGED finder
    /\ ConcUnchanged

NextConcFinder ==
    \/ ConcChangedBuild \/ ConcChangedLock \/ ConcChangedAssign \/ ConcChangedUnlock
    \/ ConcIterCall \/ ConcIterRLock \/ ConcIterCopy \/ ConcIterRUnlock
    \/ ConcIterView \/ ConcIterVisit \/ ConcIterReturn
    \/ ConcAdd

SpecConcFinder == Init /\ [][NextConcFinder]_vars


(***************************************************************************)
(* SpecScan: files come and go on disk, the ignore patterns change, and    *)
(* the folder is scanned.                                                  *)
(***************************************************************************)
\* the lists of subs handed to scan: none, "a", "c", "a/b", "a" and "c" in
\* either order, "n" (not in the folder), "../ra" (next to the root, its
\* name beginning with the root's), "b" with "../ra", "../c" (next to the
\* root)
ScanSubLists ==
    {<<>>, <<<<97>>>>, <<<<99>>>>, <<<<97, Slash, 98>>>>,
     <<<<97>>, <<99>>>>, <<<<99>>, <<97>>>>, <<<<110>>>>,
     <<<<DotByte, DotByte, Slash, 114, 97>>>>,
     <<<<98>>, <<DotByte, DotByte, Slash, 114, 97>>>>,
     <<<<DotByte, DotByte, Slash, 99>>>>}

ScanUnchanged == UNCHANGED <<nops, cmp, rd, fault, blocks, fix, blocBuc, finder, conc, subsCall, ldb, cset, gset, race, loop>>

\* a file or directory is created in a directory that exists
DiskCreate ==
    /\ \E n \in ScanNames \ scn.disk :
          /\ Dir(n) = DotPath \/ Dir(n) \in scn.disk
          /\ scn' = [scn EXCEPT !.disk = @ \cup {n}]
    /\ UNCHANGED <<dev, glob, clockTick>>
    /\ ScanUnchanged

\* a file or an empty directory is removed
DiskRemove ==
    /\ \E n \in scn.disk :
          /\ \A m \in scn.disk : Dir(m) # n
          /\ scn' = [scn EXCEPT !.disk = @ \ {n}]
    /\ UNCHANGED <<dev, glob, clockTick>>
    /\ ScanUnchanged

\* .stignore is edited
IgnoreChange ==
    /\ \E ign \in SUBSET IgnoreNames :
          /\ ign # scn.ign
          /\ scn' = [scn EXCEPT !.ign = ign]
    /\ UNCHANGED <<dev, glob, clockTick>>
    /\ ScanUnchanged

\* scan(subs)
Scan ==
    /\ scn.scans < MaxScans
    /\ \E subs \in ScanSubLists : \E symOK \in BOOLEAN, healthy \in BOOLEAN :
          \E r \in {scan([devs |-> dev, glo |-> glob, clk |-> clockTick], subs,
                         scn.disk, scn.ign, symOK, healthy)} :
              /\ dev' = r.st.devs
              /\ glob' = r.st.glo
              /\ clockTick' = r.st.clk
    /\ scn' = [scn EXCEPT !.scans = @ + 1]
    /\ ScanUnchanged

NextScan == DiskCreate \/ DiskRemove \/ IgnoreChange \/ Scan

SpecScan == Init /\ [][NextScan]_vars


(***************************************************************************)
(* SpecSubs: cleanSubs over an index set up as in TestCleanSubs.           *)
(***************************************************************************)
\* the names the index can hold: "a", "a/b", "ab", "b"
SubsNames == {<<97>>, <<97, Separator, 98>>, <<97, 98>>, <<98>>}

\* the subs: "a", "a/b", "ab", "b", "n" and "a/n" (not in the index), "/a",
\* "/a/../b", "."
SubsInputs == {<<97>>, <<97, Separator, 98>>, <<97, 98>>, <<98>>, <<110>>,
               <<97, Separator, 110>>, <<Separator, 97>>,
               <<Separator, 97, Separator, DotByte, DotByte, Separator, 98>>, DotPath}

SubsLists == UNION {[1..n -> SubsInputs] : n \in 0..MaxSubs}

SubsUnchanged == UNCHANGED <<nops, cmp, rd, fault, blocks, fix, blocBuc, finder, conc, scn, ldb, cset, gset, race, loop>>

\* fs.Replace(LOCAL, files) into the empty index, the files in name order
SubsReplace ==
    /\ dev["LOCAL"] = EmptyBucket
    /\ ~subsCall.done
    /\ \E known \in SUBSET SubsNames :
          LET bkt == [n \in known |-> File(n, Vec(1, 0), {}, 0)]
              r   == scanUpdate([devs |-> dev, glo |-> glob, clk |-> clockTick],
                                haveFrom(bkt, CursorFirst(bkt)))
          IN  /\ known # {}
              /\ dev' = r.devs
              /\ glob' = r.glo
              /\ clockTick' = r.clk
    /\ UNCHANGED subsCall
    /\ SubsUnchanged

\* sc.cleanSubs(subs)
CleanSubs ==
    /\ \E subs \in SubsLists :
          subsCall' = [done |-> TRUE, subs |-> subs,
                       out |-> cleanSubs(RootPath, dev["LOCAL"], subs)]
    /\ UNCHANGED <<dev, glob, clockTick>>
    /\ SubsUnchanged

NextSubs == SubsReplace \/ CleanSubs

SpecSubs == Init /\ [][NextSubs]_vars


(***************************************************************************)
(* SpecIntegrity: a data directory is written key by key, by a sound       *)
(* program or not, and the integrity tool is run on it.                    *)
(***************************************************************************)
\* the records a device key can hold: the name of the key with no block or
\* with the block h1; for one key also a record under another name
LdbRecords(k) ==
    {[Name |-> k[2], Blocks |-> <<>>], [Name |-> k[2], Blocks |-> <<"h1">>]}
        \cup IF k = <<"LOCAL", <<1>>>> THEN {[Name |-> <<2>>, Blocks |-> <<>>]} ELSE {}

\* the version lists: no device, one, or both in either order
LdbLists == {<<>>, <<"LOCAL">>, <<"REMOTE1">>, <<"LOCAL", "REMOTE1">>, <<"REMOTE1", "LOCAL">>}

LdbBlockKeys == {<<"h1", <<1>>>>, <<"h2", <<1>>>>, <<"h1", <<2>>>>}

LdbUnchanged == UNCHANGED <<setVars, blocks, fix, blocBuc, finder, conc, scn, subsCall, cset, gset, race, loop>>

LdbPutDevice ==
    /\ \E k \in Devices \X Names : \E f \in LdbRecords(k) :
          ldb' = [ldb EXCEPT !.files = Put(@, k, f), !.ran = FALSE, !.exit = 0]
    /\ LdbUnchanged

LdbDeleteDevice ==
    /\ \E k \in DOMAIN ldb.files :
          ldb' = [ldb EXCEPT !.files = Delete(@, k), !.ran = FALSE, !.exit = 0]
    /\ LdbUnchanged

LdbPutGlobal ==
    /\ \E n \in Names : \E vl \in LdbLists :
          ldb' = [ldb EXCEPT !.globals = Put(@, n, vl), !.ran = FALSE, !.exit = 0]
    /\ LdbUnchanged

LdbDeleteGlobal ==
    /\ \E n \in DOMAIN ldb.globals :
          ldb' = [ldb EXCEPT !.globals = Delete(@, n), !.ran = FALSE, !.exit = 0]
    /\ LdbUnchanged

LdbPutBlock ==
    /\ \E b \in LdbBlockKeys \ ldb.blockKeys :
          ldb' = [ldb EXCEPT !.blockKeys = @ \cup {b}, !.ran = FALSE, !.exit = 0]
    /\ LdbUnchanged

LdbDeleteBlock ==
    /\ \E b \in ldb.blockKeys :
          ldb' = [ldb EXCEPT !.blockKeys = @ \ {b}, !.ran = FALSE, !.exit = 0]
    /\ LdbUnchanged

\* the tool is run on the directory
IntegrityMain ==
    /\ ~ldb.ran
    /\ ldb' = [ldb EXCEPT !.ran = TRUE, !.exit = integrityExit(ldb)]
    /\ LdbUnchanged

NextIntegrity ==
    \/ LdbPutDevice \/ LdbDeleteDevice
    \/ LdbPutGlobal \/ LdbDeleteGlobal
    \/ LdbPutBlock \/ LdbDeleteBlock
    \/ IntegrityMain

SpecIntegrity == Init /\ [][NextIntegrity]_vars


(***************************************************************************)
(* SpecChanges: Replace and ReplaceWithDelete of the set of files/set.go,  *)
(* called for one node id.                                                 *)
(***************************************************************************)
\* scanner.File{Name, Version}: two names, three versions
SetFiles == [Name : Names, Version : {1, 2, 3}, Deleted : {FALSE}]

\* the lists: every name at most once
SetLists ==
    {fs \in UNION {[1..n -> SetFiles] : n \in 0..MaxLen} :
        \A i, j \in 1..Len(fs) : i # j => fs[i].Name # fs[j].Name}

SetUnchanged ==
    UNCHANGED <<setVars, blocks, fix, blocBuc, finder, conc, scn, subsCall, ldb, gset, race, loop>>

ReplaceWithDeleteCall ==
    /\ cset.calls < MaxSetCalls
    /\ \E fs \in SetLists :
          cset' = [SetReplaceWithDelete(cset, fs) EXCEPT !.calls = @ + 1]
    /\ SetUnchanged

ReplaceCall ==
    /\ cset.calls < MaxSetCalls
    /\ \E fs \in SetLists :
          cset' = [SetReplace(cset, fs) EXCEPT !.calls = @ + 1]
    /\ SetUnchanged

NextChanges == ReplaceWithDeleteCall \/ ReplaceCall

SpecChanges == Init /\ [][NextChanges]_vars

(***************************************************************************)
(* SpecGlobalSet: Replace, ReplaceWithDelete and Update of the set of      *)
(* files/set.go, called for the local node and for a remote one.           *)
(***************************************************************************)
GlobalSetUnchanged ==
    UNCHANGED <<setVars, blocks, fix, blocBuc, finder, conc, scn, subsCall, ldb, cset, race, loop>>

GlobalSetUpdate ==
    /\ gset.calls < MaxSetCalls
    /\ \E id \in NodeIDs, fs \in SetLists :
          gset' = [SetUpdate(gset, id, fs) EXCEPT !.calls = @ + 1]
    /\ GlobalSetUnchanged

GlobalSetReplace ==
    /\ gset.calls < MaxSetCalls
    /\ \E id \in NodeIDs, fs \in SetLists :
          gset' = [SetReplaceNode(gset, id, fs) EXCEPT !.calls = @ + 1]
    /\ GlobalSetUnchanged

GlobalSetReplaceWithDelete ==
    /\ gset.calls < MaxSetCalls
    /\ \E id \in NodeIDs, fs \in SetLists :
          gset' = [SetReplaceWithDeleteNode(gset, id, fs) EXCEPT !.calls = @ + 1]
    /\ GlobalSetUnchanged

NextGlobalSet == GlobalSetUpdate \/ GlobalSetReplace \/ GlobalSetReplaceWithDelete

SpecGlobalSet == Init /\ [][NextGlobalSet]_vars

(***************************************************************************)
(* SpecRace: the calls of the two tasks, step by step.                     *)
(***************************************************************************)
RaceUnchanged ==
    UNCHANGED <<setVars, blocks, fix, blocBuc, finder, conc, scn, subsCall, ldb, cset, gset,
                loop>>

\* a task calls Replace, ReplaceWithDelete or Update with a list, for the id
\* of the calls before it
RaceCall(t) ==
    /\ race.tasks[t].pc = "idle"
    /\ race.set.calls < MaxRaceCalls
    /\ \E id \in NodeIDs, op \in SetOps, fs \in SetLists :
          /\ race.set.calls = 0 \/ id = race.id
          /\ race' = [race EXCEPT !.id = id,
                                  !.tasks[t] = [pc |-> "lock", op |-> op, fs |-> fs],
                                  !.set.calls = @ + 1]
    /\ RaceUnchanged

\* m.cMut.Lock()
RaceLock(t) ==
    /\ race.tasks[t].pc = "lock"
    /\ race.cMut = 0
    /\ race' = [race EXCEPT !.cMut = t, !.tasks[t].pc = "count"]
    /\ RaceUnchanged

\* m.changes[id] = 0; for _, f := range fs { ... }
RaceCount(t) ==
    /\ race.tasks[t].pc = "count"
    /\ race' = [race EXCEPT !.set.changes[race.id] =
                                counted(race.tasks[t].op, @, race.tasks[t].fs),
                            !.tasks[t].pc = "unlock"]
    /\ RaceUnchanged

\* m.cMut.Unlock()
RaceUnlock(t) ==
    /\ race.tasks[t].pc = "unlock"
    /\ race' = [race EXCEPT !.cMut = 0, !.tasks[t].pc = "update"]
    /\ RaceUnchanged

\* m.db.Update(...): the write transaction, one at a time; the call returns
RaceCommit(t) ==
    /\ race.tasks[t].pc = "update"
    /\ race' = [race EXCEPT !.set = dbUpdate(race.tasks[t].op, @, race.id, race.tasks[t].fs),
                            !.implied = counted(race.tasks[t].op, @, race.tasks[t].fs),
                            !.tasks[t].pc = "idle"]
    /\ RaceUnchanged

NextRace ==
    \E t \in Tasks :
        \/ RaceCall(t)
        \/ RaceLock(t)
        \/ RaceCount(t)
        \/ RaceUnlock(t)
        \/ RaceCommit(t)

SpecRace == Init /\ [][NextRace]_vars

(***************************************************************************)
(* SpecLoop: calls of genericReplace, iteration by iteration.  The loop is *)
(* straight-line code of the calling task, so an iteration that can run    *)
(* does run: SpecLoopFair.                                                 *)
(***************************************************************************)
LoopUnchanged ==
    UNCHANGED <<setVars, blocks, fix, blocBuc, finder, conc, scn, subsCall, ldb, cset, gset,
                race>>

\* sort.Sort(fileList(fs)); it := devBuc.Cursor(); k, v := it.First(); fsi := 0
LoopCall ==
    /\ loop.pc = "idle"
    /\ loop.calls < MaxLoopCalls
    /\ \E device \in Devices, fs \in FileLists, withDelete \in BOOLEAN, myID \in MyIDs :
          LET st == [loop.st EXCEPT !.maxLocalVer = 0]
              k  == CursorFirst(st.devs[device])
          IN  loop' = [st |-> st, device |-> device, fs |-> SortByName(fs), fsi |-> 1,
                       k |-> k, v |-> ValueAt(st.devs[device], k),
                       withDelete |-> withDelete, myID |-> myID, pc |-> "loop",
                       calls |-> loop.calls + 1, pre |-> st]
    /\ LoopUnchanged

\* one pass through the body of the for loop
LoopIterate ==
    /\ loop.pc = "loop"
    /\ loop.k # <<>> \/ loop.fsi <= Len(loop.fs)
    /\ loop' = iteration(loop)
    /\ LoopUnchanged

\* if !moreDb && !moreFs { break }; the transaction commits
LoopReturn ==
    /\ loop.pc = "loop"
    /\ loop.k = <<>>
    /\ loop.fsi > Len(loop.fs)
    /\ loop' = [loop EXCEPT !.pc = "idle"]
    /\ LoopUnchanged

NextLoop == LoopCall \/ LoopIterate \/ LoopReturn

SpecLoop == Init /\ [][NextLoop]_vars

SpecLoopFair == SpecLoop /\ WF_vars(LoopIterate) /\ WF_vars(LoopReturn)

NextFinder == Changed \/ FinderAdd \/ FinderDiscard

SpecFinder == Init /\ [][NextFinder]_vars

(***************************************************************************)
(* Properties.                                                             *)
(***************************************************************************)
Above == {"Greater", "ConcurrentGreater"}

NotBelow == {"Equal", "Greater", "ConcurrentGreater"}

HasRecord(d, name) == name \in DOMAIN dev[d]

\* C1: for every name with a version list, the device at the head of the
\* list has a record of that name and the record's Version equals the
\* version of the head entry.
C1_HeadOwnsRecord ==
    \A name \in DOMAIN glob :
        Len(glob[name]) > 0 =>
            LET head == glob[name][1]
            IN  /\ HasRecord(head.device, name)
                /\ VectorEqual(dev[head.device][name].Version, head.version)

\* C1 witness: a version list of two devices with different versions, the
\* head of which was not the first to announce the file.
C1_Witness ==
    \E name \in DOMAIN glob :
        /\ Len(glob[name]) = 2
        /\ VectorCompare(glob[name][1].version, glob[name][2].version) \in Above
        /\ dev[glob[name][1].device][name].LocalVersion
               > dev[glob[name][2].device][name].LocalVersion
        /\ nops >= 2

\* C2: every version list is sorted descending: no entry is below an
\* entry that follows it (in particular the head is not below any other).
C2_ListSortedDescending ==
    \A name \in DOMAIN glob :
        \A i, j \in 1..Len(glob[name]) :
            i < j => VectorCompare(glob[name][i].version, glob[name][j].version) \in NotBelow

\* C2 witness: a list of three devices holding a dominated pair and a
\* concurrent pair.
C2_Witness ==
    /\ GName \in DOMAIN glob
    /\ Len(glob[GName]) = 3
    /\ VectorCompare(glob[GName][1].version, glob[GName][2].version) = "ConcurrentGreater"
    /\ VectorCompare(glob[GName][2].version, glob[GName][3].version) = "Greater"

\* C3: every record that is not INVALID has its name in the global bucket
\* with an entry of the record's device in the version list.
C3_ValidRecordListed ==
    \A d \in Devices :
        \A name \in DOMAIN dev[d] :
            ~IsInvalid(dev[d][name]) =>
                /\ name \in DOMAIN glob
                /\ \E i \in 1..Len(glob[name]) : glob[name][i].device = d

\* C3 witness: a name that one device holds as INVALID (and is not listed
\* for) and the other holds as a tombstone (and is listed for).
C3_Witness ==
    \E name \in DOMAIN glob :
        \E d1, d2 \in Devices :
            /\ HasRecord(d1, name) /\ IsInvalid(dev[d1][name])
            /\ HasRecord(d2, name) /\ IsDeleted(dev[d2][name]) /\ ~IsInvalid(dev[d2][name])
            /\ \A i \in 1..Len(glob[name]) : glob[name][i].device # d1

\* C4: no name of the global bucket maps to an empty version list.
C4_NoEmptyVersionList ==
    \A name \in DOMAIN glob : Len(glob[name]) > 0

\* C4 witness: a list holding only one device's entry, which a replace of
\* that device with the empty list drops, deleting the key.
C4_Witness ==
    \E name \in DOMAIN glob :
        /\ Len(glob[name]) = 1
        /\ nops >= 1
        /\ name \notin DOMAIN replace(Tx(dev, glob, clockTick), glob[name][1].device, <<>>).glo

Mirror(r) ==
    CASE r = "Equal" -> "Equal"
      [] r = "Greater" -> "Lesser"
      [] r = "Lesser" -> "Greater"
      [] r = "ConcurrentGreater" -> "ConcurrentLesser"
      [] r = "ConcurrentLesser" -> "ConcurrentGreater"

\* C5: Compare is a total order on canonical vectors: Compare(a,b) and
\* Compare(b,a) are mirror results, Equal is returned exactly for the same
\* vector, of two distinct vectors exactly one is above the other, and
\* above is transitive (a above b and b above c imply a above c), whether
\* the pairs are dominated or concurrent.
C5_CompareTotalOrder ==
    cmp.set =>
        /\ cmp.ba = Mirror(cmp.ab)
        /\ (cmp.ab = "Equal") <=> (cmp.a = cmp.b)
        /\ cmp.a # cmp.b => ((cmp.ab \in Above) <=> ~(cmp.ba \in Above))
        /\ (cmp.ab \in Above /\ cmp.bc \in Above) => cmp.ac \in Above

\* C5 witness: a mixed chain, a dominating b and b above c only by the
\* encoding, with a and c concurrent as well.
C5_Witness ==
    /\ cmp.set
    /\ cmp.ab = "Greater"
    /\ cmp.bc = "ConcurrentGreater"
    /\ cmp.ac = "ConcurrentGreater"

(***************************************************************************)
(* Calls applied to the current store.                                     *)
(***************************************************************************)
Now == Tx(dev, glob, clockTick)

\* the transaction state of the next call, made after st committed
After(st) == Tx(st.devs, st.glo, st.clk)

SameStore(s1, s2) == s1.devs = s2.devs /\ s1.glo = s2.glo /\ s1.clk = s2.clk

FileNames(fs) == {fs[i].Name : i \in 1..Len(fs)}

DistinctNames(fs) == \A i, j \in 1..Len(fs) : i # j => fs[i].Name # fs[j].Name

\* no name is announced twice with different (Version, Flags)
NoConflictingNames(fs) ==
    \A i, j \in 1..Len(fs) : fs[i].Name = fs[j].Name => ~Differs(fs[i], fs[j])

\* the second of two equal calls wrote nothing and left the store as it was
Unchanged(s1, s2) == SameStore(s1, s2) /\ s2.maxLocalVer = 0

\* C6 as claimed: for every device and every list fs, a second
\* Update(device, fs) leaves the store as the first one left it and writes
\* nothing.
C6_UpdateIdempotentAnyList ==
    nops < MaxOps =>
        \A device \in Devices, fs \in FileLists :
            LET s1 == update(Now, device, fs)
            IN  Unchanged(s1, update(After(s1), device, fs))

\* C6 amended: for every device and every list fs in which no name occurs
\* with two different (Version, Flags), a second Update(device, fs) leaves
\* the store (records with their LocalVersion, version lists, clock) as the
\* first one left it and writes nothing.
C6_UpdateIdempotent ==
    nops < MaxOps =>
        \A device \in Devices, fs \in FileLists :
            NoConflictingNames(fs) =>
                LET s1 == update(Now, device, fs)
                IN  Unchanged(s1, update(After(s1), device, fs))

\* C6 witness: a store other devices have written to, and an Update of two
\* files (one stamped by the clock) that changes a record already there;
\* repeating it changes nothing.
C6_Witness ==
    /\ nops >= 1 /\ nops < MaxOps
    /\ \E device \in Devices, fs \in FileLists :
          LET s1 == update(Now, device, fs)
          IN  /\ Len(fs) = 2 /\ DistinctNames(fs)
              /\ \E i \in 1..2 : HasRecord(device, fs[i].Name) /\ Differs(dev[device][fs[i].Name], fs[i])
              /\ s1.clk > clockTick
              /\ Unchanged(s1, update(After(s1), device, fs))

\* C7 as claimed: for every list fs, Replace(device, fs) twice yields the
\* state of applying it once, and ReplaceWithDelete(device, fs) after
\* Replace(device, fs) changes nothing.
C7_ReplaceIdempotentAnyList ==
    nops < MaxOps =>
        \A device \in Devices, fs \in FileLists, myID \in MyIDs :
            LET s1 == replace(Now, device, fs)
            IN  /\ Unchanged(s1, replace(After(s1), device, fs))
                /\ Unchanged(s1, replaceWithDelete(After(s1), device, fs, myID))

\* C7 amended: for every list fs of distinct names, Replace(device, fs)
\* twice yields the state of applying it once, and
\* ReplaceWithDelete(device, fs, id) after Replace(device, fs) changes
\* nothing: no record rewritten, no tombstone made, no version list changed.
C7_ReplaceIdempotent ==
    nops < MaxOps =>
        \A device \in Devices, fs \in FileLists, myID \in MyIDs :
            DistinctNames(fs) =>
                LET s1 == replace(Now, device, fs)
                IN  /\ Unchanged(s1, replace(After(s1), device, fs))
                    /\ Unchanged(s1, replaceWithDelete(After(s1), device, fs, myID))

\* C7 witness: a Replace that removes one record of the device and changes
\* another; repeating it, or following it by ReplaceWithDelete, changes
\* nothing.
C7_Witness ==
    /\ nops >= 1 /\ nops < MaxOps
    /\ \E device \in Devices, fs \in FileLists, myID \in MyIDs :
          LET s1 == replace(Now, device, fs)
          IN  /\ Len(fs) = 1
              /\ Cardinality(DOMAIN dev[device]) = 2
              /\ Differs(dev[device][fs[1].Name], fs[1])
              /\ Unchanged(s1, replace(After(s1), device, fs))
              /\ Unchanged(s1, replaceWithDelete(After(s1), device, fs, myID))

\* the version list with the entries of one device left out
ListWithout(fl, device) == SelectSeq(fl, LAMBDA e : e.device # device)

\* the global bucket as it is without the entries of one device
GlobalWithout(gloBuc, device) ==
    LET keep == {name \in DOMAIN gloBuc : ListWithout(gloBuc[name], device) # <<>>}
    IN  [name \in keep |-> ListWithout(gloBuc[name], device)]

\* C8: Replace(device, []) deletes every record of the device and removes
\* the device from every version list; the records and the list entries of
\* the other devices stay, in their order, so names only this device held
\* are gone from the global bucket and the others fall back to the
\* remaining devices' winner.
C8_EmptyReplaceClearsDevice ==
    nops < MaxOps =>
        \A device \in Devices :
            LET s1 == replace(Now, device, <<>>)
            IN  /\ s1.devs[device] = EmptyBucket
                /\ \A d \in Devices \ {device} : s1.devs[d] = dev[d]
                /\ s1.glo = GlobalWithout(glob, device)
                /\ \A name \in DOMAIN s1.glo :
                      \A i \in 1..Len(s1.glo[name]) : s1.glo[name][i].device # device

\* C8 witness: the device heads the list of one name another device also
\* holds, and alone holds another name, before the empty Replace.
C8_Witness ==
    /\ nops < MaxOps
    /\ \E device \in Devices, n1, n2 \in DOMAIN glob :
          LET s1 == replace(Now, device, <<>>)
          IN  /\ Len(glob[n1]) = 2 /\ glob[n1][1].device = device
              /\ Len(glob[n2]) = 1 /\ glob[n2][1].device = device
              /\ n2 \notin DOMAIN s1.glo
              /\ s1.glo[n1] = <<glob[n1][2]>>

\* the entries a device has in a version list
EntriesOf(gloBuc, name, device) ==
    IF name \in DOMAIN gloBuc
    THEN {i \in 1..Len(gloBuc[name]) : gloBuc[name][i].device = device}
    ELSE {}

\* C9: ReplaceWithDelete(device, fs, myID) keeps every record of the device
\* whose name is absent from fs and that is not DELETED, rewritten as a
\* tombstone: Flags = old Flags | DELETED, no Blocks, Version = old
\* Version.Update(myID), LocalVersion a fresh clock value (above the old
\* LocalVersion and above every value the clock gave before); the device's
\* entry in the name's version list carries the tombstone's version.
C9_AbsentBecomesTombstone ==
    nops < MaxOps =>
        \A device \in Devices, fs \in FileLists, myID \in MyIDs :
            LET s1 == replaceWithDelete(Now, device, fs, myID)
            IN  \A name \in DOMAIN dev[device] :
                    (name \notin FileNames(fs) /\ ~IsDeleted(dev[device][name])) =>
                        LET old == dev[device][name]
                        IN  /\ name \in DOMAIN s1.devs[device]
                            /\ s1.devs[device][name].Name = name
                            /\ s1.devs[device][name].Flags = old.Flags \cup {FlagDeleted}
                            /\ s1.devs[device][name].Blocks = <<>>
                            /\ s1.devs[device][name].Version = VectorUpdate(old.Version, myID)
                            /\ s1.devs[device][name].LocalVersion > old.LocalVersion
                            /\ s1.devs[device][name].LocalVersion > clockTick
                            /\ s1.devs[device][name].LocalVersion <= s1.clk
                            /\ \E i \in EntriesOf(s1.glo, name, device) :
                                  /\ EntriesOf(s1.glo, name, device) = {i}
                                  /\ s1.glo[name][i].version = s1.devs[device][name].Version

\* C9 witness: the device holds two live files with blocks, one of them
\* behind another device's copy; the call lists neither, and the tombstone
\* of the one that was behind now heads the list.
C9_Witness ==
    /\ nops < MaxOps
    /\ \E device \in Devices, myID \in MyIDs : \E name \in DOMAIN dev[device] :
          LET s1 == replaceWithDelete(Now, device, <<>>, myID)
          IN  /\ Cardinality(DOMAIN dev[device]) = 2
              /\ \A n \in DOMAIN dev[device] : dev[device][n].Blocks # <<>>
              /\ Len(glob[name]) = 2 /\ glob[name][2].device = device
              /\ s1.glo[name][1].device = device
              /\ IsDeleted(s1.devs[device][name])

\* C10: a record that is a tombstone is left as it is by a
\* ReplaceWithDelete whose list omits its name: the record (its Version
\* and LocalVersion) and the name's version list are unchanged; when the
\* list is empty and every record of the device is a tombstone, the call
\* changes nothing at all and the clock does not tick.
C10_TombstoneKept ==
    nops < MaxOps =>
        \A device \in Devices, fs \in FileLists, myID \in MyIDs :
            LET s1 == replaceWithDelete(Now, device, fs, myID)
            IN  /\ \A name \in DOMAIN dev[device] :
                      (name \notin FileNames(fs) /\ IsDeleted(dev[device][name])) =>
                          /\ name \in DOMAIN s1.devs[device]
                          /\ s1.devs[device][name] = dev[device][name]
                          /\ name \in DOMAIN glob => (name \in DOMAIN s1.glo /\ s1.glo[name] = glob[name])
                /\ (fs = <<>> /\ \A name \in DOMAIN dev[device] : IsDeleted(dev[device][name])) =>
                      Unchanged(Now, s1)

\* C10 witness: a tombstone made by an earlier ReplaceWithDelete (its
\* counter was bumped and its LocalVersion taken from the clock), met
\* again by a call that omits its name.
C10_Witness ==
    /\ nops >= 2 /\ nops < MaxOps
    /\ \E device \in Devices, myID \in MyIDs : \E name \in DOMAIN dev[device] :
          /\ IsDeleted(dev[device][name])
          /\ dev[device][name].Version[myID] = 2
          /\ dev[device][name].LocalVersion = clockTick
          /\ Unchanged(Now, replaceWithDelete(Now, device, <<>>, myID))

\* the elements of a sequence
Range(s) == {s[i] : i \in 1..Len(s)}

\* C11: availability(name) returns exactly the devices whose entry in the
\* name's version list has a version Equal to the head's (each once, none
\* with a lesser or a merely concurrent version), and no device when the
\* name has no version list.
C11_AvailabilityExact ==
    /\ GName \notin DOMAIN glob => availability(glob, GName) = <<>>
    /\ GName \in DOMAIN glob =>
          LET fl == glob[GName]
              av == availability(glob, GName)
          IN  /\ Range(av) = {fl[i].device : i \in {j \in 1..Len(fl) :
                                    VectorCompare(fl[j].version, fl[1].version) = "Equal"}}
              /\ Cardinality(Range(av)) = Len(av)

\* C11 witness: three devices listed, two of them at the head version and
\* the third at a version concurrent with it; the two are returned.
C11_Witness ==
    /\ GName \in DOMAIN glob
    /\ Len(glob[GName]) = 3
    /\ VectorCompare(glob[GName][1].version, glob[GName][3].version) = "ConcurrentGreater"
    /\ Len(availability(glob, GName)) = 2

\* the indices of the list entries at the head version whose device holds
\* a record of the name that is not INVALID
ValidHeads(name) ==
    {i \in 1..Len(glob[name]) :
        /\ VectorEqual(glob[name][i].version, glob[name][1].version)
        /\ HasRecord(glob[name][i].device, name)
        /\ ~IsInvalid(dev[glob[name][i].device][name])}

\* the best valid copy at the head version: the first of them in the list
BestCopy(name) ==
    dev[glob[name][CHOOSE i \in ValidHeads(name) : \A j \in ValidHeads(name) : i <= j].device][name]

\* the device needs the name
Needed(device, name) ==
    /\ name \in DOMAIN glob
    /\ LET fl == glob[name]
           di == DeviceIndex(fl, device)
       IN  /\ di = 0 \/ ~VectorGreaterEqual(fl[di].version, fl[1].version)
           /\ ValidHeads(name) # {}
           /\ ~(IsDeleted(BestCopy(name)) /\ di = 0)

\* C12: withNeed(device) reports a name if and only if the name has a
\* version list, the device has no entry in it or one whose version is not
\* GreaterEqual the head's, a record that is not INVALID exists at the head
\* version, and that record is not a tombstone the device has no entry
\* for; the record reported is that record, each name is reported once, in
\* name order, and the reader does not panic.
C12_NeedExact ==
    \A device \in GDevices :
        LET need == withNeed(dev, glob, device)
        IN  /\ \A i \in 1..Len(need) : ~IsPanic(need[i])
            /\ \A i, j \in 1..Len(need) : i < j => BytesCompare(need[i].Name, need[j].Name) < 0
            /\ \A name \in Names :
                  (\E i \in 1..Len(need) : need[i].Name = name) <=> Needed(device, name)
            /\ \A i \in 1..Len(need) : need[i] = BestCopy(need[i].Name)

\* C12 witness: LOCAL's tombstone heads the list of a name REMOTE1 still
\* holds an old copy of; REMOTE1 needs the tombstone, REMOTE2, which never
\* had the file, does not, and needs the live file of the other name.
C12_Witness ==
    \E n1, n2 \in DOMAIN glob :
        /\ Len(glob[n1]) = 2
        /\ glob[n1][1].device = "LOCAL" /\ IsDeleted(dev["LOCAL"][n1])
        /\ ~IsDeleted(dev["REMOTE1"][n1])
        /\ withNeed(dev, glob, "REMOTE1") = <<dev["LOCAL"][n1]>>
        /\ Len(withNeed(dev, glob, "REMOTE2")) = 1
        /\ withNeed(dev, glob, "REMOTE2")[1].Name = n2
        /\ n2 # n1

Below == {"Lesser", "ConcurrentLesser"}

\* the names of a bucket in key order
RECURSIVE KeysFrom(_, _)
KeysFrom(b, k) == IF k = <<>> THEN <<>> ELSE <<k>> \o KeysFrom(b, CursorNext(b, k))

\* C13: getGlobal(name) is absent when the name has no version list, and
\* otherwise the record the head device of the list holds of the name,
\* whose Version is not Lesser and not ConcurrentLesser than the Version of
\* any device's record of the name that is not INVALID; withGlobal yields
\* that record for every name of the global bucket, in key order, and
\* neither reader panics.
C13_GlobalIsHeadRecord ==
    /\ \A name \in Names :
          LET g == getGlobal(dev, glob, name)
          IN  /\ ~IsPanic(g)
              /\ name \notin DOMAIN glob => ~g.ok
              /\ name \in DOMAIN glob =>
                    /\ g.ok
                    /\ HasRecord(glob[name][1].device, name)
                    /\ g.fi = dev[glob[name][1].device][name]
                    /\ \A d \in Devices :
                          (HasRecord(d, name) /\ ~IsInvalid(dev[d][name])) =>
                              VectorCompare(g.fi.Version, dev[d][name].Version) \notin Below
    /\ LET wg   == withGlobal(dev, glob)
           keys == KeysFrom(glob, CursorFirst(glob))
       IN  /\ Len(wg) = Len(keys)
           /\ \A i \in 1..Len(wg) :
                 /\ ~IsPanic(wg[i])
                 /\ wg[i] = getGlobal(dev, glob, keys[i]).fi

\* C13 witness: one name held by both devices at concurrent versions, the
\* global record being the one above by the encoding, and another name with
\* no version list, held as INVALID only.
C13_Witness ==
    \E n1, n2 \in Names :
        /\ n1 \in DOMAIN glob /\ Len(glob[n1]) = 2
        /\ VectorCompare(glob[n1][1].version, glob[n1][2].version) = "ConcurrentGreater"
        /\ getGlobal(dev, glob, n1).fi = dev[glob[n1][1].device][n1]
        /\ n2 \notin DOMAIN glob
        /\ \E d \in Devices : HasRecord(d, n2)
        /\ ~getGlobal(dev, glob, n2).ok
        /\ Len(withGlobal(dev, glob)) = 1

\* C14: after Replace(device, fs) with distinct names, in any argument
\* order, withHave(device) yields one record per name of fs and no other
\* name, each with the Version and the Flags given in fs; and an
\* Update(device, gs) changes only names of gs: every other record of the
\* device, every record of the other devices and the version list of every
\* other name stay as they are.
C14_ReplaceSetsExactly ==
    nops < MaxOps =>
        \A device \in Devices, fs \in FileLists :
            /\ DistinctNames(fs) =>
                  LET s1   == replace(Now, device, fs)
                      have == withHave(s1.devs, device)
                  IN  /\ Len(have) = Len(fs)
                      /\ Range([i \in 1..Len(have) |-> have[i].Name]) = FileNames(fs)
                      /\ \A i \in 1..Len(fs) :
                            \E j \in 1..Len(have) :
                                /\ have[j].Name = fs[i].Name
                                /\ have[j].Version = fs[i].Version
                                /\ have[j].Flags = fs[i].Flags
                      /\ \A d \in Devices \ {device} : s1.devs[d] = dev[d]
            /\ LET s2 == update(Now, device, fs)
               IN  /\ DOMAIN s2.devs[device] = DOMAIN dev[device] \cup FileNames(fs)
                   /\ \A name \in DOMAIN dev[device] \ FileNames(fs) :
                         s2.devs[device][name] = dev[device][name]
                   /\ \A d \in Devices \ {device} : s2.devs[d] = dev[d]
                   /\ \A name \in Names \ FileNames(fs) :
                         /\ name \in DOMAIN s2.glo <=> name \in DOMAIN glob
                         /\ name \in DOMAIN glob => s2.glo[name] = glob[name]

\* C14 witness: the device holds two names; a Replace announces both in
\* descending name order, one of them with the stored version and other
\* flags, and a following Update of one name leaves the other record alone.
C14_Witness ==
    /\ nops < MaxOps - 1
    /\ \E device \in Devices, fs \in FileLists, gs \in FileLists :
          LET s1 == replace(Now, device, fs)
              s2 == update(After(s1), device, gs)
          IN  /\ Len(fs) = 2 /\ DistinctNames(fs)
              /\ BytesCompare(fs[1].Name, fs[2].Name) > 0
              /\ DOMAIN dev[device] = FileNames(fs)
              /\ VectorEqual(dev[device][fs[2].Name].Version, fs[2].Version)
              /\ dev[device][fs[2].Name].Flags # fs[2].Flags
              /\ s1.devs[device][fs[2].Name].Flags = fs[2].Flags
              /\ Len(gs) = 1 /\ gs[1].Name = fs[2].Name
              /\ Differs(s1.devs[device][fs[2].Name], gs[1])
              /\ s2.devs[device][fs[1].Name] = s1.devs[device][fs[1].Name]
              /\ s2.devs[device][fs[2].Name] # s1.devs[device][fs[2].Name]

\* the files of fs that Update(device, fs) has to write: the stored record
\* is absent or differs in (Version, Flags)
ToWrite(device, fs) ==
    {i \in 1..Len(fs) : ~HasRecord(device, fs[i].Name)
                        \/ Differs(dev[device][fs[i].Name], fs[i])}

\* Update(device, fs), fs of distinct names, wrote exactly the files of
\* ToWrite as announced, stamping LocalVersion with a fresh clock value for
\* the files selected by Stamped(device, f) and keeping it for the others.
UpdateWrites(device, fs, Stamped(_, _)) ==
    LET s1 == update(Now, device, fs)
    IN  /\ \A i \in 1..Len(fs) \ ToWrite(device, fs) :
              s1.devs[device][fs[i].Name] = dev[device][fs[i].Name]
        /\ \A i \in ToWrite(device, fs) :
              LET new == s1.devs[device][fs[i].Name]
              IN  /\ new.Version = fs[i].Version
                  /\ new.Flags = fs[i].Flags
                  /\ new.Blocks = fs[i].Blocks
                  /\ Stamped(device, fs[i]) =>
                        /\ new.LocalVersion > clockTick
                        /\ new.LocalVersion <= s1.clk
                  /\ ~Stamped(device, fs[i]) => new.LocalVersion = fs[i].LocalVersion
        /\ s1.clk = clockTick + Cardinality({i \in ToWrite(device, fs) : Stamped(device, fs[i])})

StampedLocalOnly(device, f) == device = "LOCAL" /\ f.LocalVersion = 0

StampedWhenZero(device, f) == f.LocalVersion = 0

\* C15 as claimed: Update writes a record only when the stored one is
\* absent or differs in (Version, Flags), and stamps LocalVersion with a
\* fresh clock value only when the device is LOCAL and the incoming
\* LocalVersion is 0; a record written for a remote device keeps the
\* LocalVersion it arrived with.
C15_StampOnlyLocal ==
    nops < MaxOps =>
        \A device \in Devices, fs \in FileLists :
            DistinctNames(fs) => UpdateWrites(device, fs, StampedLocalOnly)

\* C15 amended: Update writes a record only when the stored one is absent
\* or differs in (Version, Flags), and stamps LocalVersion with a fresh
\* clock value exactly when the incoming LocalVersion is 0, whatever the
\* device; a record arriving with another LocalVersion keeps it.
C15_StampWhenZero ==
    nops < MaxOps =>
        \A device \in Devices, fs \in FileLists :
            DistinctNames(fs) => UpdateWrites(device, fs, StampedWhenZero)

\* C15 witness: an Update of REMOTE1 after other writes, announcing one file
\* with LocalVersion 5 and one with LocalVersion 0, both written: the first
\* keeps 5, the second is stamped by the clock.
C15_Witness ==
    /\ nops >= 1 /\ nops < MaxOps
    /\ clockTick >= 1
    /\ \E fs \in FileLists :
          LET s1 == update(Now, "REMOTE1", fs)
          IN  /\ Len(fs) = 2 /\ DistinctNames(fs)
              /\ ToWrite("REMOTE1", fs) = {1, 2}
              /\ fs[1].LocalVersion = 5 /\ fs[2].LocalVersion = 0
              /\ s1.devs["REMOTE1"][fs[1].Name].LocalVersion = 5
              /\ s1.devs["REMOTE1"][fs[2].Name].LocalVersion = clockTick + 1

IsPrefix(s, t) == Len(s) <= Len(t) /\ SubSeq(t, 1, Len(s)) = s

HasEntry(folBkt, hash, name) == hash \in DOMAIN folBkt /\ name \in DOMAIN folBkt[hash]

EntryIs(folBkt, hash, name, index) ==
    HasEntry(folBkt, hash, name) /\ folBkt[hash][name] = index

SameEntry(a, b, hash, name) ==
    /\ HasEntry(a, hash, name) <=> HasEntry(b, hash, name)
    /\ HasEntry(a, hash, name) => a[hash][name] = b[hash][name]

\* a regular file in use: not a directory, not deleted, not invalid
Indexed(file) == file.Flags \cap {FlagDirectory, FlagDeleted, FlagInvalid} = {}

\* the positions (counted from 1) of the hash in a block list
PositionsOf(bl, hash) == {i \in 1..Len(bl) : bl[i] = hash}

\* the files of the list, in use and of that name, that carry the hash
Carriers(files, hash, name) ==
    {k \in 1..Len(files) : /\ Indexed(files[k])
                           /\ files[k].Name = name
                           /\ PositionsOf(files[k].Blocks, hash) # {}}

MaxOf(S) == CHOOSE x \in S : \A y \in S : y <= x

IteratedFiles(folBkt, hash) ==
    {BlockFinderIterate(folBkt, hash)[j].file : j \in 1..Len(BlockFinderIterate(folBkt, hash))}

\* C18 as stated: after Add(files) every block index i of every file in
\* use has the entry (Blocks[i], Name) = i, no entry exists for a name
\* passed as directory, deleted or invalid unless it was there before, and
\* Iterate on a hash of such a file finds nothing.
C18_AddIndexesEveryBlock ==
    ~blocks.panicked =>
        \A files \in BlockFileLists :
            LET post == BlockMapAdd(blocks.folBkt, files)
            IN  \A k \in 1..Len(files) :
                    IF Indexed(files[k])
                    THEN \A i \in 1..Len(files[k].Blocks) :
                            EntryIs(post, files[k].Blocks[i], files[k].Name, i - 1)
                    ELSE /\ \A h \in Hashes :
                               HasEntry(post, h, files[k].Name)
                                   => HasEntry(blocks.folBkt, h, files[k].Name)
                         /\ \A i \in 1..Len(files[k].Blocks) :
                               BlockFinderIterate(post, files[k].Blocks[i]) = <<>>

\* C18 amended: after Add(files) the entry (hash, name) is the last index
\* at which the last file in use of that name carries the hash, every
\* other entry is as it was before, and Iterate on a hash hands out the
\* files that had an entry under it or carry it in use in the list: none
\* for a hash that only skipped files carry and that had no entry.
C18_AddPutsLastIndex ==
    ~blocks.panicked =>
        \A files \in BlockFileLists :
            LET post == BlockMapAdd(blocks.folBkt, files)
            IN  /\ \A h \in Hashes, n \in Names :
                      IF Carriers(files, h, n) = {}
                      THEN SameEntry(post, blocks.folBkt, h, n)
                      ELSE EntryIs(post, h, n,
                               MaxOf(PositionsOf(files[MaxOf(Carriers(files, h, n))].Blocks, h)) - 1)
                /\ DOMAIN post \subseteq Hashes
                /\ \A h \in Hashes :
                      IteratedFiles(post, h) =
                          {n \in Names : HasEntry(blocks.folBkt, h, n) \/ Carriers(files, h, n) # {}}

\* C18 witness: a map with an entry already in it; Add is called with a
\* file in use that carries one hash twice and a deleted file with blocks.
C18_Witness ==
    /\ ~blocks.panicked
    /\ \E h \in Hashes, n \in Names : HasEntry(blocks.folBkt, h, n)
    /\ \E files \in BlockFileLists :
          LET post == BlockMapAdd(blocks.folBkt, files)
          IN  /\ Len(files) = 2
              /\ Indexed(files[1]) /\ files[1].Blocks = <<"h1", "h1">>
              /\ IsDeleted(files[2]) /\ files[2].Blocks = <<"h2">>
              /\ files[1].Name # files[2].Name
              /\ ~HasEntry(blocks.folBkt, "h1", files[1].Name)
              /\ EntryIs(post, "h1", files[1].Name, 1)
              /\ BlockFinderIterate(post, "h2") = <<>>
              /\ post # blocks.folBkt

Gone(file) == IsDeleted(file) \/ IsInvalid(file)

NotGone(file) == ~Gone(file)

\* C19: Update(files) ends as Discard of the deleted and invalid files
\* followed by Add of the others does: no entry is left for a block of a
\* file passed as deleted or invalid, every block of the other files has
\* its entry, and the entries of names not in the list are as before.
C19_UpdateIsDiscardThenAdd ==
    ~blocks.panicked =>
        \A files \in BlockFileLists :
            LET out    == BlockMapUpdate(blocks.folBkt, files)
                expect == BlockMapAdd(BlockMapDiscard(blocks.folBkt, SelectSeq(files, Gone)),
                                      SelectSeq(files, NotGone))
            IN  DistinctNames(files) =>
                  /\ ~out.panicked
                  /\ \A h \in Hashes, n \in Names : SameEntry(out.folBkt, expect, h, n)
                  /\ \A k \in 1..Len(files) :
                        Gone(files[k]) /\ ~IsDirectory(files[k]) =>
                            \A i \in 1..Len(files[k].Blocks) :
                                ~HasEntry(out.folBkt, files[k].Blocks[i], files[k].Name)
                  /\ \A h \in Hashes, n \in Names \ FileNames(files) :
                        SameEntry(out.folBkt, blocks.folBkt, h, n)

\* C20: after any sequence of writes of LOCAL's records, each followed by
\* the block map call for the same files, every entry (hash, name) = i of
\* the block map has a LOCAL record of that name whose block i carries the
\* hash.
C20_EntriesFollowRecords ==
    ~blocks.panicked =>
        \A h \in DOMAIN blocks.folBkt :
            \A n \in DOMAIN blocks.folBkt[h] :
                /\ n \in DOMAIN dev["LOCAL"]
                /\ blocks.folBkt[h][n] < Len(dev["LOCAL"][n].Blocks)
                /\ dev["LOCAL"][n].Blocks[blocks.folBkt[h][n] + 1] = h

\* what Iterate hands out under the hash, as a set
Under(folBkt, hash) ==
    {BlockFinderIterate(folBkt, hash)[j] : j \in 1..Len(BlockFinderIterate(folBkt, hash))}

\* the entries under the hash once Fix has run on the map pre
UnderAfterFix(pre, hash) ==
    IF hash = fix.newHash
    THEN {e \in Under(pre, hash) : e.file # fix.file}
             \cup {[file |-> fix.file, index |-> fix.index]}
    ELSE IF hash = fix.oldHash
    THEN {e \in Under(pre, hash) : e.file # fix.file}
    ELSE Under(pre, hash)

FolderEntries(bloc, folder, hash) ==
    IF folder \in DOMAIN bloc /\ hash \in DOMAIN bloc[folder]
    THEN {[folder |-> folder, file |-> n, index |-> bloc[folder][hash][n]] :
             n \in DOMAIN bloc[folder][hash]}
    ELSE {}

\* the number of entries of the hash in the folders listed before place fi
RECURSIVE CallsBefore(_, _, _, _)
CallsBefore(bloc, folders, hash, fi) ==
    IF fi <= 1 THEN 0
    ELSE CallsBefore(bloc, folders, hash, fi - 1)
             + Cardinality(FolderEntries(bloc, folders[fi - 1], hash))

Occurrences(ids, id) == Cardinality({i \in 1..Len(ids) : ids[i] = id})

\* C22: the folder list of the finder is the last applied configuration in
\* ascending order of folder ID, and an Iterate whose iterFn accepts
\* nothing calls it on the entries of the hash folder by folder in that
\* order, within a folder in ascending order of file name, each entry of a
\* listed folder once per listing.
C22_IterateOrder ==
    /\ \A i, j \in 1..Len(finder.folders) :
          i < j => BytesCompare(finder.folders[i], finder.folders[j]) <= 0
    /\ Len(finder.folders) = Len(finder.cfg)
    /\ \A id \in FolderIDs : Occurrences(finder.folders, id) = Occurrences(finder.cfg, id)
    /\ \A hash \in Hashes :
          LET r == Iterate(blocBuc, finder.folders, hash, 0).calls
          IN  /\ Len(r) = CallsBefore(blocBuc, finder.folders, hash, Len(finder.folders) + 1)
              /\ \A fi \in 1..Len(finder.folders) :
                    LET from == CallsBefore(blocBuc, finder.folders, hash, fi)
                        upto == CallsBefore(blocBuc, finder.folders, hash, fi + 1)
                    IN  /\ {r[k] : k \in (from + 1)..upto}
                               = FolderEntries(blocBuc, finder.folders[fi], hash)
                        /\ \A k, m \in (from + 1)..upto :
                              k < m => BytesCompare(r[k].file, r[m].file) < 0

\* C22 witness: the configuration lists folder 2 before folder 1, and a hash
\* has two files in folder 1 and one in folder 2.
C22_Witness ==
    /\ finder.cfg = <<<<2>>, <<1>>>>
    /\ Cardinality(FolderEntries(blocBuc, <<1>>, "h1")) = 2
    /\ Cardinality(FolderEntries(blocBuc, <<2>>, "h1")) = 1
    /\ Len(Iterate(blocBuc, finder.folders, "h1", 0).calls) = 3

\* C23: an iterFn is, to Iterate, the number of the first call it answers
\* with true (0: it never does). For every hash and every such number a,
\* with full the call sequence when nothing is accepted: if a is at most
\* the number of entries, Iterate makes exactly the first a calls of full
\* and returns true; otherwise it makes all the calls of full and returns
\* false.
C23_StopsAtFirstTrue ==
    \A hash \in Hashes : \A a \in 0..MaxAccept :
        LET full == Iterate(blocBuc, finder.folders, hash, 0).calls
            r    == Iterate(blocBuc, finder.folders, hash, a)
        IN  IF a \in 1..Len(full)
            THEN r.found /\ r.calls = SubSeq(full, 1, a)
            ELSE ~r.found /\ r.calls = full

\* C23 witness: a hash has one entry in the first listed folder and two in
\* the second; an iterFn accepting its first call is called once and leaves
\* the second folder unvisited, one accepting nothing is called three times.
C23_Witness ==
    /\ finder.folders = <<<<1>>, <<2>>>>
    /\ Cardinality(FolderEntries(blocBuc, <<1>>, "h2")) = 1
    /\ Cardinality(FolderEntries(blocBuc, <<2>>, "h2")) = 2
    /\ Iterate(blocBuc, finder.folders, "h2", 1).found
    /\ Len(Iterate(blocBuc, finder.folders, "h2", 1).calls) = 1
    /\ ~Iterate(blocBuc, finder.folders, "h2", 0).found
    /\ Len(Iterate(blocBuc, finder.folders, "h2", 0).calls) = 3

\* C24: with Changed and Iterate running side by side, the slice an Iterate
\* ranges over is one of the lists f.folders has held since the Iterate was
\* called, every one of them a sorted whole configuration; the folders it
\* visits are that list from the first to the last, and its calls are those
\* of an Iterate over that list alone. Once it has copied the slice and
\* released the reader lock it holds no lock, so a Changed that has built
\* its slice finds the mutex free or held only for the moment of a copy.
C24_WholeFolderList ==
    LET it == conc.it
    IN  /\ \A l \in it.cands : \E cfg \in Configs : l = changed(cfg)
        /\ it.pc \in {"copied", "unlocked", "scanning", "done"} => it.folders \in it.cands
        /\ it.pc = "scanning" => IsPrefix(it.visited, it.folders) /\ Len(it.visited) = it.fi - 1
        /\ it.pc = "done" =>
              /\ it.visited = it.folders
              /\ it.calls = Iterate(it.snap, it.folders, it.hash, 0).calls
        /\ it.pc \in {"unlocked", "scanning", "done"} => conc.mut # "r"
        /\ (it.pc = "scanning" /\ conc.chg.pc = "built") => CanLock(conc.mut)

\* C24 witness: an Iterate has returned after visiting the two folders of
\* the list it copied and calling iterFn, while a Changed replaced the list
\* by another one after the copy.
C24_Witness ==
    /\ conc.it.pc = "done"
    /\ Len(conc.it.visited) = 2
    /\ conc.it.calls # <<>>
    /\ Cardinality(conc.it.cands) = 2
    /\ conc.it.folders # finder.folders
    /\ Len(finder.folders) = 2

\* the store as the scanner finds it
ScanStore == [devs |-> dev, glo |-> glob, clk |-> clockTick]

\* the location a sub names, relative to the folder root, leaves the root
Escapes(sub) ==
    SplitPath(Rel(RootPath, Clean(Join(RootPath, NativeFilename(sub)))))[1] = DotDot

\* C25: scan(subs) returns an error without starting the walk and without
\* writing to the index when one of the subs names a location outside the
\* folder root, a directory next to the root whose name begins with the
\* root's name included; when every sub stays inside the root the subs are
\* accepted and the walk is started.
C25_ScanRejectsEscapes ==
    \A subs \in ScanSubLists : \A symOK \in BOOLEAN, healthy \in BOOLEAN :
        LET r == scan(ScanStore, subs, scn.disk, scn.ign, symOK, healthy)
        IN  IF \E i \in 1..Len(subs) : Escapes(subs[i])
            THEN r.err /\ ~r.walked /\ r.st = ScanStore
            ELSE r.walked

\* the longest of the paths sub, its parent, the parent of that, ... that
\* the index knows, "." when it knows none
LongestKnown(sub) ==
    LET rel   == Rel(RootPath, Join(RootPath, sub))
        el    == SplitPath(rel)
        known == {k \in 1..Len(el) : JoinElems(SubSeq(el, 1, k)) \in DOMAIN dev["LOCAL"]}
    IN  IF known = {} THEN DotPath
        ELSE JoinElems(SubSeq(el, 1, CHOOSE k \in known : \A m \in known : m <= k))

\* path lies below dir: dir, a separator, more
BelowDir(path, dir) == HasPrefix(path, dir \o <<Separator>>)

\* C26: cleanSubs returns, in ascending order and each once, subs reduced
\* to their longest ancestor the index knows (or to "."); the reduction of
\* every sub handed in is among them unless it lies below one of them at a
\* separator, so a sub that only begins with the bytes of another ("ab"
\* next to "a") is returned.
C26_CleanSubsKeepsSiblings ==
    subsCall.done =>
        LET out == subsCall.out
            in  == subsCall.subs
        IN  /\ \A i, j \in 1..Len(out) : i < j => BytesCompare(out[i], out[j]) < 0
            /\ \A i \in 1..Len(out) : \E k \in 1..Len(in) : out[i] = LongestKnown(in[k])
            /\ \A k \in 1..Len(in) :
                  \/ \E i \in 1..Len(out) : out[i] = LongestKnown(in[k])
                  \/ \E i \in 1..Len(out) : BelowDir(LongestKnown(in[k]), out[i])

\* the name lies under one of the cleaned subs: every name when there is
\* no sub or a sub is ".", else a sub itself or a path below it
UnderSubs(name, subs) ==
    \/ Len(subs) = 0
    \/ \E i \in 1..Len(subs) : subs[i] = DotPath \/ name = subs[i] \/ BelowDir(name, subs[i])

\* a deleted tombstone of the name is in one of the batches handed to
\* Update(LOCAL, ...)
TombstoneSubmitted(updates, name) ==
    \E b \in 1..Len(updates) : \E k \in 1..Len(updates[b]) :
        updates[b][k].Name = name /\ IsDeleted(updates[b][k])

\* C27: when scan(subs) returns without error, every record of LOCAL that
\* is neither deleted nor invalid, whose name lies under one of the cleaned
\* subs and whose file is not on disk has had a deleted tombstone handed to
\* Update(LOCAL, ...), whatever records lie between the trees of the subs.
C27_MissingFilesTombstoned ==
    \A subs \in ScanSubLists : \A symOK \in BOOLEAN :
        LET r == scan(ScanStore, subs, scn.disk, scn.ign, symOK, TRUE)
        IN  ~r.err =>
                \A i \in 1..Len(r.have) :
                    LET f == r.have[i]
                    IN  (/\ ~IsDeleted(f)
                         /\ ~IsInvalid(f)
                         /\ UnderSubs(f.Name, r.subs)
                         /\ f.Name \notin scn.disk)
                        => TombstoneSubmitted(r.updates, f.Name)

\* the batches of the diff pass, one after the other
RECURSIVE Flatten(_)
Flatten(batches) == IF batches = <<>> THEN <<>> ELSE Head(batches) \o Flatten(Tail(batches))

\* C28: in a scan that returns without error, every update of the diff
\* pass is the tombstone of a record that was neither deleted nor invalid:
\* for a record that is ignored or an unsupported symlink the old flags
\* with INVALID and the old version; otherwise, the file missing on disk,
\* the old flags with DELETED and the old version updated by the local
\* short id. Every tombstone is handed to Update(LOCAL, ...), and the same
\* scan repeated over the same disk and patterns has no update in its diff
\* pass.
C28_TombstoneForms ==
    \A subs \in ScanSubLists : \A symOK \in BOOLEAN :
        LET r  == scan(ScanStore, subs, scn.disk, scn.ign, symOK, TRUE)
            r2 == scan(r.st, subs, scn.disk, scn.ign, symOK, TRUE)
        IN  ~r.err =>
              /\ \A k \in 1..Len(r.diff) :
                    LET t == r.diff[k]
                    IN  \E i \in 1..Len(r.have) :
                          LET f == r.have[i]
                          IN  /\ f.Name = t.Name
                              /\ ~IsDeleted(f) /\ ~IsInvalid(f)
                              /\ IF f.Name \in scn.ign \/ (IsSymlink(f) /\ ~symOK)
                                 THEN /\ t.Flags = f.Flags \cup {FlagInvalid}
                                      /\ t.Version = f.Version
                                 ELSE /\ f.Name \notin scn.disk
                                      /\ t.Flags = f.Flags \cup {FlagDeleted}
                                      /\ t.Version = [f.Version EXCEPT ![scannerShortID] = @ + 1]
              /\ Flatten(r.updates) = r.diff
              /\ \A b \in 1..Len(r.updates) : Len(r.updates[b]) \in 1..batchSize
              /\ ~r2.err /\ r2.diff = <<>> /\ r2.updates = <<>>

\* C28 witness: a scan of the whole folder whose diff pass produces an
\* invalid tombstone for an ignored record and a deleted tombstone for a
\* record whose file is gone, in more than one batch.
C28_Witness ==
    LET r == scan(ScanStore, <<>>, scn.disk, scn.ign, TRUE, TRUE)
    IN  /\ ~r.err
        /\ \E k \in 1..Len(r.diff) : IsInvalid(r.diff[k]) /\ r.diff[k].Name \in scn.ign
        /\ \E k \in 1..Len(r.diff) : IsDeleted(r.diff[k]) /\ r.diff[k].Name \notin scn.disk
        /\ Len(r.updates) = 2

\* the block entries of the directory name this hash
InBlockIndex(hash) == \E b \in ldb.blockKeys : b[1] = hash

\* a version list is empty
EmptyListViolation == \E n \in DOMAIN ldb.globals : ldb.globals[n] = <<>>

\* an entry of a version list names a device that has no record of the file
MissingRecordViolation ==
    \E n \in DOMAIN ldb.globals : \E i \in 1..Len(ldb.globals[n]) :
        <<ldb.globals[n][i], n>> \notin DOMAIN ldb.files

\* an entry of a version list leads to a record that carries another name
OtherNameViolation ==
    \E n \in DOMAIN ldb.globals : \E i \in 1..Len(ldb.globals[n]) :
        /\ <<ldb.globals[n][i], n>> \in DOMAIN ldb.files
        /\ ldb.files[<<ldb.globals[n][i], n>>].Name # n

\* a block hash of a device record is not in the block index
UnindexedBlockViolation ==
    \E k \in DOMAIN ldb.files : \E i \in 1..Len(ldb.files[k].Blocks) :
        ~InBlockIndex(ldb.files[k].Blocks[i])

\* a block entry names a file of which no device has a record
UnknownFileViolation ==
    \E b \in ldb.blockKeys : \A d \in Devices : <<d, b[2]>> \notin DOMAIN ldb.files

\* a block entry has a hash that is the hash of no block of any record
UnknownHashViolation ==
    \E b \in ldb.blockKeys :
        \A k \in DOMAIN ldb.files : \A i \in 1..Len(ldb.files[k].Blocks) :
            ldb.files[k].Blocks[i] # b[1]

C30_ChangesFollowsSet ==
    \A fs \in SetLists :
        LET post == SetReplaceWithDelete(cset, fs)
        IN  /\ post.bkt # cset.bkt => Changes(post) > Changes(cset)
            /\ (cset.calls > 0 /\ fs = cset.last) => Changes(post) = Changes(cset)

(***************************************************************************)
(* The state of a (device, name) record under Update.                      *)
(***************************************************************************)
\* the device holds a tombstone of the name of f, and f is not deleted
TombstoneMeets(device, f) ==
    /\ HasRecord(device, f.Name)
    /\ IsDeleted(dev[device][f.Name])
    /\ ~IsDeleted(f)

\* C31 as claimed: an Update carrying a non-deleted file whose Version is
\* not Greater than the Version of the tombstone the device holds leaves
\* the tombstone stored.
C31_TombstoneNeedsGreater ==
    nops < MaxOps =>
        \A device \in Devices, f \in FileInputs :
            (/\ TombstoneMeets(device, f)
             /\ VectorCompare(f.Version, dev[device][f.Name].Version) # "Greater")
            => update(Now, device, <<f>>).devs[device][f.Name] = dev[device][f.Name]

\* C31 amended: an Update carrying a non-deleted file replaces the
\* tombstone the device holds by that file, whatever the order of the two
\* Versions: the record stored afterwards has the Version and the Flags of
\* the file and is not a tombstone.
C31_TombstoneReplaced ==
    nops < MaxOps =>
        \A device \in Devices, f \in FileInputs :
            TombstoneMeets(device, f) =>
                LET rec == update(Now, device, <<f>>).devs[device][f.Name]
                IN  /\ ~IsDeleted(rec)
                    /\ rec.Flags = f.Flags
                    /\ VectorEqual(rec.Version, f.Version)

\* C31 witness: a device holds a tombstone and a non-deleted file of a
\* Lesser Version is announced for it; the Update stores the file.
C31_Witness ==
    /\ nops < MaxOps
    /\ \E device \in Devices, f \in FileInputs :
          /\ TombstoneMeets(device, f)
          /\ VectorCompare(f.Version, dev[device][f.Name].Version) = "Lesser"
          /\ ~IsDeleted(update(Now, device, <<f>>).devs[device][f.Name])

(***************************************************************************)
(* WithGlobal with a prefix.                                               *)
(***************************************************************************)
\* the prefixes handed to WithGlobal: none, and the one-byte names
GlobalPrefixes == {<<>>} \cup Names

StartsWith(name, prefix) ==
    Len(prefix) <= Len(name) /\ SubSeq(name, 1, Len(prefix)) = prefix

\* fn is called for every name of the global bucket once, in ascending order
VisitsAllAscending(out) ==
    /\ \A i \in 1..Len(out) : ~IsPanic(out[i])
    /\ {out[i].Name : i \in 1..Len(out)} = DOMAIN glob
    /\ \A i, j \in 1..Len(out) : i < j => BytesCompare(out[i].Name, out[j].Name) < 0

\* C32: WithGlobal(prefix, fn) with a non-empty prefix calls fn only for
\* the GLOBAL names that start with the prefix, and for every such name;
\* with no prefix it calls fn for every GLOBAL name once, in ascending name
\* order.
C32_WithGlobalPrefix ==
    \A prefix \in GlobalPrefixes :
        LET out == WithGlobal(dev, glob, prefix)
        IN  IF prefix = <<>> THEN VisitsAllAscending(out)
            ELSE /\ \A i \in 1..Len(out) : ~IsPanic(out[i])
                 /\ \A i \in 1..Len(out) : StartsWith(out[i].Name, prefix)
                 /\ \A n \in DOMAIN glob :
                       StartsWith(n, prefix) => \E i \in 1..Len(out) : out[i].Name = n

(***************************************************************************)
(* The global bucket of the set of files/set.go.                           *)
(***************************************************************************)
\* the names some node has a record of
NodeNames(st) == UNION {DOMAIN st.files[id] : id \in NodeIDs}

\* the global bucket holds, for every name a node has, a record equal to a
\* node's record of the highest version, and no other name
GlobalIsNewest(st) ==
    /\ DOMAIN st.glo = NodeNames(st)
    /\ \A n \in NodeNames(st) :
          /\ \E id \in NodeIDs : n \in DOMAIN st.files[id] /\ st.files[id][n] = st.glo[n]
          /\ \A id \in NodeIDs :
                n \in DOMAIN st.files[id] => st.files[id][n].Version <= st.glo[n].Version

\* C33: after any sequence of Replace, ReplaceWithDelete and Update calls
\* the global bucket holds, for every name present in a node bucket, a
\* record equal to a node's record of that name with the highest Version
\* among all nodes, and holds no name that no node has.
C33_GlobalIsNewest == GlobalIsNewest(gset)

(***************************************************************************)
(* One entry per device in a version list.                                 *)
(***************************************************************************)
\* C34: after any sequence of updateGlobal / removeFromGlobal calls no
\* version list contains two entries of the same device.
C34_OneEntryPerDevice ==
    \A name \in DOMAIN glob :
        \A i, j \in 1..Len(glob[name]) :
            i # j => glob[name][i].device # glob[name][j].device

\* C34 witness: the list holds an entry of each of the three devices, and
\* updateGlobal called for a device of the list with another version
\* leaves a list of the same length in which the device has the new version.
C34_Witness ==
    /\ GName \in DOMAIN glob
    /\ Len(glob[GName]) = 3
    /\ \E device \in GDevices, version \in Vectors(MaxGCounter) :
          LET di == DeviceIndex(glob[GName], device)
              fl == updateGlobal(glob, device, GName, version)[GName]
          IN  /\ di # 0
              /\ ~VectorEqual(glob[GName][di].version, version)
              /\ Len(fl) = 3
              /\ \E i \in 1..3 : fl[i] = [device |-> device, version |-> version]

(***************************************************************************)
(* INVALID records and the version lists.                                  *)
(***************************************************************************)
\* no entry of a version list of the store st belongs to a device whose
\* record of the name carries the INVALID flag
NoInvalidListed(st) ==
    \A name \in DOMAIN st.glo :
        \A i \in 1..Len(st.glo[name]) :
            LET d == st.glo[name][i].device
            IN  name \in DOMAIN st.devs[d] => ~IsInvalid(st.devs[d][name])

\* C35: after any sequence of Update / Replace / ReplaceWithDelete calls no
\* version list contains an entry for a device whose DEVICE record at that
\* name carries the INVALID flag.
C35_NoInvalidListed == NoInvalidListed(Now)

(***************************************************************************)
(* Every entry of a version list and its device record.                    *)
(***************************************************************************)
\* C36: after any sequence of Update / Replace / ReplaceWithDelete calls
\* every entry (d, v) of every version list - not only the head - has a
\* DEVICE record of d at the same name whose Version equals v.
C36_EveryEntryOwnsRecord ==
    \A name \in DOMAIN glob :
        \A i \in 1..Len(glob[name]) :
            /\ HasRecord(glob[name][i].device, name)
            /\ VectorEqual(dev[glob[name][i].device][name].Version, glob[name][i].version)

\* C36 witness: after three writes, a version list of two entries whose
\* head is Greater than the second entry; the device of the second entry
\* holds a record, stamped after another write, of the entry's Version.
C36_Witness ==
    /\ nops >= 3
    /\ \E name \in DOMAIN glob :
          /\ Len(glob[name]) = 2
          /\ LET d == glob[name][2].device
             IN  /\ dev[d][name].LocalVersion >= 2
                 /\ VectorEqual(dev[d][name].Version, glob[name][2].version)
                 /\ VectorCompare(glob[name][1].version, glob[name][2].version) = "Greater"

(***************************************************************************)
(* What a write for one device leaves alone.                               *)
(***************************************************************************)
\* the version list of a name, <<>> when the global bucket has none
ListOf(gloBuc, name) == IF name \in DOMAIN gloBuc THEN gloBuc[name] ELSE <<>>

\* a write for the device with the list fs, leading to the store post, has
\* left the records and the list entries of the other devices as they were
\* and has touched only lists of names of fs or of the device's records
FrameKept(device, fs, post) ==
    /\ \A d \in Devices \ {device} : post.devs[d] = dev[d]
    /\ GlobalWithout(post.glo, device) = GlobalWithout(glob, device)
    /\ \A name \in Names \ (FileNames(fs) \cup DOMAIN dev[device]) :
          ListOf(post.glo, name) = ListOf(glob, name)

\* C37: Update, Replace and ReplaceWithDelete called for device d leave
\* every DEVICE record of every other device unchanged, leave the other
\* devices' version list entries unchanged, and touch the version list only
\* of names of the argument list or of d's previous records.
C37_WriteFrame ==
    nops < MaxOps =>
        \A device \in Devices, fs \in FileLists :
            /\ FrameKept(device, fs, update(Now, device, fs))
            /\ FrameKept(device, fs, replace(Now, device, fs))
            /\ \A myID \in MyIDs :
                  FrameKept(device, fs, replaceWithDelete(Now, device, fs, myID))

\* C37 witness: the other device holds records of both names and is in
\* both version lists; a Replace for the device with a list of one name
\* changes both lists and the device's records.
C37_Witness ==
    /\ nops < MaxOps
    /\ \E device \in Devices, fs \in FileLists :
          LET post == replace(Now, device, fs)
          IN  /\ Len(fs) = 1
              /\ \A d \in Devices \ {device}, name \in Names :
                    HasRecord(d, name) /\ EntriesOf(glob, name, d) # {}
              /\ \A name \in Names : ListOf(post.glo, name) # ListOf(glob, name)
              /\ post.devs[device] # dev[device]
              /\ FrameKept(device, fs, post)

(***************************************************************************)
(* Availability and need.                                                  *)
(***************************************************************************)
\* the names WithNeed(device) calls fn for
NeedNames(device) ==
    LET out == withNeed(dev, glob, device)
    IN  {out[i].Name : i \in {j \in 1..Len(out) : ~IsPanic(out[j])}}

\* C38: in every reachable state a device returned by Availability(name)
\* is not reported as needing name by WithNeed(device).
C38_AvailableNotNeeded ==
    \A name \in Names, d \in Devices :
        d \in Range(availability(glob, name)) => name \notin NeedNames(d)

\* C38 witness: one device is returned by Availability(name) and does not
\* need the name, while the other device, listed with a lesser version, is
\* not returned and needs it.
C38_Witness ==
    \E name \in Names, d \in Devices, o \in Devices :
        /\ d # o
        /\ Range(availability(glob, name)) = {d}
        /\ EntriesOf(glob, name, o) # {}
        /\ name \notin NeedNames(d)
        /\ name \in NeedNames(o)

(***************************************************************************)
(* The change counter under concurrent calls.                              *)
(***************************************************************************)
\* C39: when two tasks call Replace / ReplaceWithDelete / Update for the
\* same id concurrently, then once both calls have returned Changes(id)
\* equals the value implied by the call whose store transaction committed
\* last.
C39_ChangesFollowsLastCommit ==
    (\A t \in Tasks : race.tasks[t].pc = "idle") =>
        race.set.changes[race.id] = race.implied

(***************************************************************************)
(* Termination of genericReplace.                                          *)
(***************************************************************************)
\* what is left to do: the list entries from fsi on and the stored keys from
\* the cursor on
Remaining(g) ==
    (Len(g.fs) + 1 - g.fsi)
    + IF g.k = <<>> THEN 0
      ELSE Cardinality({m \in DOMAIN g.st.devs[g.device] : BytesCompare(m, g.k) >= 0})

\* the cursor has moved on: to a greater key or off the end
CursorAdvanced(k, nk) == k # <<>> /\ (nk = <<>> \/ BytesCompare(nk, k) > 0)

IterationAdvances ==
    (loop.pc = "loop" /\ loop'.pc = "loop") =>
        /\ Cardinality(cases(loop)) = 1
        /\ loop'.fsi = loop.fsi + 1 \/ CursorAdvanced(loop.k, loop'.k)
        /\ loop'.fsi \in {loop.fsi, loop.fsi + 1}
        /\ loop'.k = loop.k \/ CursorAdvanced(loop.k, loop'.k)
        /\ Remaining(loop') < Remaining(loop)

\* C40: genericReplace terminates for every finite argument list and every
\* finite stored record set, lists with repeated names included: each loop
\* iteration matches exactly one of the three cases and advances the list
\* index, the store cursor, or both, and every call that has begun returns.
C40_GenericReplaceTerminates ==
    /\ [][IterationAdvances]_vars
    /\ (loop.pc = "loop") ~> (loop.pc = "idle")

\* C40 witness: a call with a list that repeats a name, over a bucket that
\* held records, has run to its return.
C40_Witness ==
    /\ loop.pc = "idle"
    /\ loop.calls > 0
    /\ Len(loop.fs) = 2
    /\ loop.fs[1].Name = loop.fs[2].Name
    /\ loop.pre.devs[loop.device] # EmptyBucket
    /\ loop.fsi = 3

====
